---- MODULE Spec2Model ----
(***************************************************************************)
(* Order-book reconstruction and subscription management of               *)
(* quantike/pydiction.                                                     *)
(*                                                                         *)
(* The repository holds two book pipelines:                                *)
(*   - src/pydiction: main.update_handler feeds every queued frame to      *)
(*     book.Orderbook.process (MainSpec);                                  *)
(*   - packages/kalshi: KalshiMessageHandler dispatches book frames to     *)
(*     KalshiOrderbookHandler.process, which drives                        *)
(*     common.models.orderbook.Orderbook (HandlerSpec).                    *)
(* common/models/orderbook.py lines 36-95 (sort, update, refresh) are      *)
(* line for line the code of src/pydiction/book.py lines 18-72.            *)
(*                                                                         *)
(* MarketsSpec is update_handler fed the frames of two subscribed markets, *)
(* RoundTripSpec a pair of opposite deltas on one bid level, and           *)
(* ClientSpec the subscription management of KalshiWsClient                *)
(* (packages/kalshi/src/kalshi/ws/client.py).  UnsubscribeSpec is the      *)
(* client given any list of ids to unsubscribe, TimedSpec the client with  *)
(* the timestamps of its subscriptions, PoolSpec the connection pool       *)
(* (packages/kalshi/src/kalshi/ws/pool.py) with the client's start and     *)
(* reconnect, ReconnectSpec that reconnect with subscriptions to replay,   *)
(* and DispatchSpec the order in which inbound frames are handled.         *)
(*                                                                         *)
(* SinkSpec is KalshiMessageHandler fed ticker, trade and lifecycle frames *)
(* beside the book frames, RefreshSpec the client with State.refresh       *)
(* (packages/common/src/common/state.py) re-reading an edited tickers      *)
(* file, EndSpec the reconnecting client with KalshiWsClient.end,          *)
(* ShutdownSpec the pool with end and the status poller                    *)
(* (packages/kalshi/src/kalshi/models/status.py), AuthSpec the reconnect   *)
(* loops given a rejected credential, and OverlapSpec the listen task and  *)
(* the _reconnect_ loops a client may have running at once.                *)
(***************************************************************************)
EXTENDS Integers, Sequences, FiniteSets, TLC

(* ------------------------------ bounds -------------------------------- *)

\* largest quantity a level of the book may reach
MaxQty == 2
\* largest sequence number a frame carries
MaxSeq == 3

\* prices (cents) the frames quote; 100 - p is never p, so a translated NO
\* price differs from the raw one
Prices == {30, 60}
Seqs == 1..MaxSeq
\* the quantity a snapshot level quotes, the signed changes a delta frame carries
Quantities == {2}
Deltas == {-2, -1, 0, 1, 2}

(* ------------------------------ state --------------------------------- *)

VARIABLES
    orderbook,      \* main.py:209  Orderbook(bids=[], asks=[]), a record [bids, asks]
    handler_task,   \* main.py:215  the update_handler task: "running" | "failed"
    h_orderbook,    \* handler.py:26  KalshiMessageHandler.orderbook.orderbook
    listen_task,    \* client.py:261  the listen task that calls handle_message
    last,           \* history: the last frame handled, by whom, and how it ended
    last_seq,       \* history: seq of the last frame a book applied (no field of
                    \* either Orderbook class holds it); 0 before the first
    h_tick,         \* handler.py:24  KalshiMessageHandler.tick.tick
    h_trade,        \* handler.py:25  KalshiMessageHandler.trade.trade
    h_lifecycle,    \* handler.py:27  KalshiMessageHandler.lifecycle.lifecycle
    pair,           \* history: the delta(+q') / delta(-q') pair under way and the
                    \* book it started from
    websocket,      \* client.py:43  KalshiWsClient.websocket: None | "open"
    subscriptions,  \* client.py:19  KalshiWsClient.subscriptions, id -> Subscription
    pending_unsubscriptions,  \* client.py:20
    _id_counter,     \* client.py:21  KalshiWsClient.__id_counter
    sent,           \* history: the commands the last operation sent, in order
    op,             \* history: the last client operation and what it returned
    allocated,      \* history: ids generate_subscription_id has returned
    clock,          \* the value time.time() returns
    connections,    \* pool.py:22  WsPool.connections, connection id -> socket
    latencies,      \* pool.py:23  WsPool.latencies, connection id -> window of RTTs
    connection,     \* pool.py:21  WsPool.connection, the elected socket
    ws_handle,      \* client.py:43  the socket KalshiWsClient.websocket refers to
    open_sockets,   \* the sockets that are open
    next_socket,    \* history: the number of sockets websocket_factory has returned
    pingers,        \* pool.py:109  connection id -> ping tasks in their ping loop
    reconnecting,   \* pool.py:61  connection id -> ping tasks inside
                    \* _reconnect_connection_
    phase,          \* where the client's start() or _reconnect_ stands
    replayed_on,    \* history: the socket resubscribe_all last sent on
    inbox,          \* frames that arrived on the client's socket and wait for listen
    arrivals,       \* history: the number of frames that arrived on that socket
    in_progress,    \* the frames inside handle_message
    log,            \* history: the begin, send and end of every handle_message
    queue,          \* main.py:208  the asyncio.Queue between listener and handler
    m_arrivals,     \* history: the number of frames websocket_listener received
    processed,      \* history: the frames update_handler processed, in order
    State_tickers,  \* state.py:56  State.tickers
    tickers_yaml,   \* the market_tickers list in the file at State.TICKERS_PATH
    ended,          \* history: KalshiWsClient.end() has returned
    _running,       \* status.py:16  KalshiStatus._running
    poll_task,      \* status.py:63  where the task that awaits KalshiStatus.run()
                    \* stands: "new" | "polling" | "done"
    rejected,       \* history: the reconnect loops one of whose attempts the
                    \* server rejected for authentication: a connection id for
                    \* _reconnect_connection_, ClientLoop for _reconnect_
    listeners,      \* client.py:46  the sockets a listen task iterates
    loops           \* client.py:54  the number of _reconnect_ calls under way

\* the state of the two book pipelines
\* the last-value records of the tick, trade and lifecycle handlers
sink_vars == <<h_tick, h_trade, h_lifecycle>>

book_vars ==
    <<orderbook, handler_task, h_orderbook, listen_task, last, last_seq, sink_vars>>

\* the state of KalshiWsClient's subscription management
client_vars ==
    <<websocket, subscriptions, pending_unsubscriptions, _id_counter, sent, op,
      allocated>>

\* the state of the specifications that follow the client's
\* the state of WsPool and of the client's connection to it
pool_vars ==
    <<connections, latencies, connection, ws_handle, open_sockets, next_socket,
      pingers, reconnecting, phase, replayed_on>>

\* the state of the two frame dispatchers
dispatch_vars == <<inbox, arrivals, in_progress, log, queue, m_arrivals, processed>>

\* the configuration State holds and the file it is loaded from
config_vars == <<State_tickers, tickers_yaml>>

\* the exchange status poller
status_vars == <<_running, poll_task>>

\* the listen tasks and the _reconnect_ calls of the client, one by one
overlap_vars == <<listeners, loops>>

sup_vars == <<config_vars, ended, status_vars, rejected, overlap_vars>>

ext_vars == <<clock, pool_vars, dispatch_vars, sup_vars>>

vars == <<book_vars, pair, client_vars, ext_vars>>

(* --------------------------- Level, Delta ------------------------------ *)

Level(p, q) == [price |-> p, quantity |-> q]

Delta(p, d) == [price |-> p, delta |-> d]

Min(S) == CHOOSE x \in S : \A y \in S : x <= y

(* ------------------------------ frames -------------------------------- *)

\* a wire level is the pair [price, qty]
WireLevels == Prices \X Quantities

\* level lists of a snapshot side: no price twice, in any order
WireLists ==
    { l \in UNION { [1..n -> WireLevels] : n \in 0..Cardinality(Prices) } :
        \A i, j \in 1..Len(l) : i # j => l[i][1] # l[j][1] }

SeqFields == { [has_seq |-> TRUE, seq |-> s] : s \in Seqs }
                \cup { [has_seq |-> FALSE, seq |-> 0] }

SnapshotFrames ==
    { [type |-> "orderbook_snapshot", has_seq |-> sf.has_seq, seq |-> sf.seq,
       msg |-> [yes |-> y, no |-> n]] :
         sf \in SeqFields, y \in WireLists, n \in WireLists }

DeltaFrames ==
    { [type |-> "orderbook_delta", has_seq |-> sf.has_seq, seq |-> sf.seq,
       msg |-> [price |-> p, delta |-> d, side |-> s]] :
         sf \in SeqFields, p \in Prices, d \in Deltas, s \in {"yes", "no"} }

\* frames of the socket that are no book frames: the subscribe acknowledgement
OtherFrames ==
    { [type |-> "subscribed", has_seq |-> FALSE, seq |-> 0, msg |-> [channel |-> "orderbook_delta"]] }

(* --------------------- Orderbook (book.py, orderbook.py) --------------- *)

\* list.sort(key=price): stable, ascending
RECURSIVE SortAsc(_)
SortAsc(s) ==
    IF s = <<>> THEN <<>>
    ELSE LET t == SortAsc(SubSeq(s, 1, Len(s) - 1))
             l == s[Len(s)]
             k == Cardinality({ i \in 1..Len(t) : t[i].price <= l.price })
         IN  SubSeq(t, 1, k) \o <<l>> \o SubSeq(t, k + 1, Len(t))

\* list.sort(key=price, reverse=True): stable, descending
RECURSIVE SortDesc(_)
SortDesc(s) ==
    IF s = <<>> THEN <<>>
    ELSE LET t == SortDesc(SubSeq(s, 1, Len(s) - 1))
             l == s[Len(s)]
             k == Cardinality({ i \in 1..Len(t) : t[i].price >= l.price })
         IN  SubSeq(t, 1, k) \o <<l>> \o SubSeq(t, k + 1, Len(t))

\* sort with the bids left in ascending order (reverse=True dropped)
sort_bids_ascending(ob) == [bids |-> SortAsc(ob.bids), asks |-> SortAsc(ob.asks)]

sort(ob) == [bids |-> SortDesc(ob.bids), asks |-> SortAsc(ob.asks)]

\* None, what bba gives for an empty side
None == "<None>"

\* Orderbook.bba of common/models/orderbook.py: (best bid, best ask)
bba(ob) ==
    <<IF ob.bids # <<>> THEN ob.bids[1] ELSE None,
      IF ob.asks # <<>> THEN ob.asks[1] ELSE None>>

\* update_levels with the level kept when the new quantity is exactly 0
update_levels_keep_zero(book, delta) ==
    LET hits == { i \in 1..Len(book) : book[i].price = delta.price }
    IN  IF hits # {}
        THEN LET i == Min(hits)
                 new_quanity == book[i].quantity + delta.delta
             IN  IF new_quanity >= 0
                 THEN [book EXCEPT ![i] = Level(book[i].price, new_quanity)]
                 ELSE SubSeq(book, 1, i - 1) \o SubSeq(book, i + 1, Len(book))
        ELSE IF delta.delta > 0
             THEN Append(book, Level(delta.price, delta.delta))
             ELSE book

\* update_levels with a matched level's quantity overwritten by the delta
update_levels_overwrite(book, delta) ==
    LET hits == { i \in 1..Len(book) : book[i].price = delta.price }
    IN  IF hits # {}
        THEN LET i == Min(hits)
                 new_quanity == delta.delta
             IN  IF new_quanity > 0
                 THEN [book EXCEPT ![i] = Level(book[i].price, new_quanity)]
                 ELSE SubSeq(book, 1, i - 1) \o SubSeq(book, i + 1, Len(book))
        ELSE IF delta.delta > 0
             THEN Append(book, Level(delta.price, delta.delta))
             ELSE book

\* the for/else of Orderbook.update on the list `book`
update_levels(book, delta) ==
    LET hits == { i \in 1..Len(book) : book[i].price = delta.price }
    IN  IF hits # {}
        THEN LET i == Min(hits)
                 new_quanity == book[i].quantity + delta.delta
             IN  IF new_quanity > 0
                 THEN [book EXCEPT ![i] = Level(book[i].price, new_quanity)]
                 ELSE SubSeq(book, 1, i - 1) \o SubSeq(book, i + 1, Len(book))
        ELSE IF delta.delta > 0
             THEN Append(book, Level(delta.price, delta.delta))
             ELSE book

\* Orderbook.update(book, delta), `side` naming the list passed as `book`
update(ob, side, delta) ==
    sort([ob EXCEPT ![side] = update_levels(ob[side], delta)])

\* Orderbook.refresh(side, snapshot)
refresh(ob, side, snapshot) ==
    sort(IF side \in {"bids", "asks"} THEN [ob EXCEPT ![side] = snapshot] ELSE ob)

\* [Level(level[0], level[1]) for level in levels]
to_levels(levels) == [i \in 1..Len(levels) |-> Level(levels[i][1], levels[i][2])]

\* book.Orderbook.process(recv)
process(ob, recv) ==
    IF recv.type = "orderbook_snapshot"
    THEN LET yes_levels == to_levels(recv.msg.yes)
             no_levels == to_levels(recv.msg.no)
             ob1 == IF yes_levels # <<>> THEN refresh(ob, "bids", yes_levels) ELSE ob
         IN  IF no_levels # <<>> THEN refresh(ob1, "asks", no_levels) ELSE ob1
    ELSE IF recv.type = "orderbook_delta"
    THEN LET delta == Delta(recv.msg.price, recv.msg.delta)
         IN  IF recv.msg.side = "yes" THEN update(ob, "bids", delta)
             ELSE IF recv.msg.side = "no" THEN update(ob, "asks", delta)
             ELSE ob
    ELSE ob

\* the branch Orderbook.update takes on `book`: a level of that price is set to
\* the new quantity or popped, and a price with no level is appended or skipped
update_branch(book, delta) ==
    IF \E i \in 1..Len(book) : book[i].price = delta.price
    THEN LET i == Min({ j \in 1..Len(book) : book[j].price = delta.price })
         IN  IF book[i].quantity + delta.delta > 0 THEN "set" ELSE "pop"
    ELSE IF delta.delta > 0 THEN "append" ELSE "skip"

\* the branch book.Orderbook.process reaches on recv
process_branch(ob, recv) ==
    IF recv.type = "orderbook_snapshot" THEN "refresh"
    ELSE IF recv.type = "orderbook_delta"
    THEN LET delta == Delta(recv.msg.price, recv.msg.delta)
         IN  IF recv.msg.side = "yes" THEN update_branch(ob.bids, delta)
             ELSE IF recv.msg.side = "no" THEN update_branch(ob.asks, delta)
             ELSE "none"
    ELSE "none"

\* Orderbook.empty() of common/models/orderbook.py
empty == [bids |-> <<Level(0, 0)>>, asks |-> <<Level(0, 0)>>]

(* ------------------------- src/pydiction/main.py ----------------------- *)

\* every quantity of the book stays within the model's bound
InBound(ob) ==
    /\ \A i \in 1..Len(ob.bids) : ob.bids[i].quantity <= MaxQty
    /\ \A i \in 1..Len(ob.asks) : ob.asks[i].quantity <= MaxQty

\* the seq a frame leaves as the book's latest, once the book applied it
seq_after(prev, message) == IF message.has_seq THEN message.seq ELSE prev

\* one iteration of update_handler on a book frame: process it, then build the
\* persisted record, which reads message["seq"] (KeyError when absent)
UpdateHandler(message) ==
    LET ob == process(orderbook, message)
    IN  /\ handler_task = "running"
        /\ InBound(ob)
        /\ orderbook' = ob
        /\ last_seq' = seq_after(last_seq, message)
        /\ handler_task' = IF message.has_seq THEN "running" ELSE "failed"
        /\ last' = [path |-> "update_handler", type |-> message.type,
                    has_seq |-> message.has_seq, msg |-> message.msg,
                    branch |-> process_branch(orderbook, message),
                    outcome |-> IF message.has_seq THEN "ok" ELSE "KeyError"]
        /\ UNCHANGED <<h_orderbook, listen_task, pair, sink_vars, client_vars, ext_vars>>

\* one iteration of update_handler on any other frame of the socket
UpdateHandlerOther(message) ==
    /\ handler_task = "running"
    /\ orderbook' = process(orderbook, message)
    /\ last' = [path |-> "update_handler", type |-> message.type,
                has_seq |-> message.has_seq, msg |-> message.msg,
                branch |-> process_branch(orderbook, message), outcome |-> "ok"]
    /\ UNCHANGED <<handler_task, h_orderbook, listen_task, last_seq, pair, sink_vars, client_vars, ext_vars>>


(* ------------------ packages/kalshi/src/kalshi/ws ---------------------- *)

\* a dict key that is not there (dict.get gives None)
Absent == "<absent>"

\* Orderbook.refresh(side, snapshot) called as refresh(side, snapshot, seq): the
\* method takes two arguments, so the call raises TypeError before its body runs
refresh_seq(ob, side, snapshot, seq) == [orderbook |-> ob, raised |-> "TypeError"]

\* Orderbook.update(book, delta) called as update(book, delta, seq): TypeError
update_seq(ob, side, delta, seq) == [orderbook |-> ob, raised |-> "TypeError"]

\* KalshiOrderbookHandler.process(data): the book it leaves and what it raised
\* ("ok" when it returned); every exception leaves as Exception("Orderbook
\* process error: ...") and `raised` names its cause
handler_process(ob, data) ==
    IF data.type = Absent
    THEN [orderbook |-> ob, raised |-> "ValueError: type"]
    ELSE IF ~data.has_seq
    THEN [orderbook |-> ob, raised |-> "ValueError: seq"]
    ELSE IF data.type = "orderbook_snapshot"
    THEN LET bids == to_levels(data.msg.yes)
             asks == [i \in 1..Len(data.msg.no) |->
                        Level(100 - data.msg.no[i][1], data.msg.no[i][2])]
             r1 == refresh_seq(ob, "bids", bids, data.seq)
         IN  IF r1.raised # "ok" THEN r1
             ELSE refresh_seq(r1.orderbook, "asks", asks, data.seq)
    ELSE IF data.type = "orderbook_delta"
    THEN IF data.msg.side = "yes"
         THEN update_seq(ob, "bids", Delta(data.msg.price, data.msg.delta), data.seq)
         ELSE IF data.msg.side = "no"
         THEN update_seq(ob, "asks", Delta(100 - data.msg.price, data.msg.delta), data.seq)
         ELSE [orderbook |-> ob, raised |-> "ok"]
    ELSE [orderbook |-> ob, raised |-> "ok"]

\* KalshiOrderbookHandler.process called with the one argument it declares
Process(data) ==
    LET r == handler_process(h_orderbook, data)
    IN  /\ h_orderbook' = r.orderbook
        /\ last' = [path |-> "process", type |-> data.type, has_seq |-> data.has_seq,
                    msg |-> data.msg, branch |-> "none", outcome |-> r.raised]
        /\ UNCHANGED <<orderbook, handler_task, listen_task, last_seq, pair, sink_vars, client_vars, ext_vars>>

\* KalshiMessageHandler.handle_message on a book frame: _handle_book_update_ calls
\* self.orderbook.process(update_type, message["msg"]), two arguments for a method
\* of one, so TypeError leaves handle_message and ends the listen task, which
\* catches ConnectionClosed only
HandleBookUpdate(message) ==
    /\ listen_task = "running"
    /\ message.type \in {"orderbook_snapshot", "orderbook_delta"}
    /\ listen_task' = "failed"
    /\ last' = [path |-> "handle_message", type |-> message.type,
                has_seq |-> message.has_seq, msg |-> message.msg,
                branch |-> "none", outcome |-> "TypeError"]
    /\ UNCHANGED <<orderbook, handler_task, h_orderbook, last_seq, pair, sink_vars, client_vars, ext_vars>>

\* KalshiMessageHandler.handle_message on a fill or a frame of unknown type
HandleUnexpected(message) ==
    /\ listen_task = "running"
    /\ message.type \in {"fill", "heartbeat"}
    /\ last' = [path |-> "handle_message", type |-> message.type,
                has_seq |-> message.has_seq, msg |-> message.msg,
                branch |-> "none", outcome |-> "ok"]
    /\ UNCHANGED <<orderbook, handler_task, h_orderbook, listen_task, last_seq, pair, sink_vars, client_vars, ext_vars>>

\* frames the dispatcher has no book, tick, trade or lifecycle sink for
UnexpectedFrames ==
    { [type |-> t, has_seq |-> FALSE, seq |-> 0, msg |-> [channel |-> "none"]] :
        t \in {"fill", "heartbeat"} }

\* dicts with no "type" key
UntypedFrames ==
    { [type |-> Absent, has_seq |-> sf.has_seq, seq |-> sf.seq, msg |-> [channel |-> "none"]] :
        sf \in SeqFields }

(* ------------- tick, trade and lifecycle handlers (ws/handlers) -------- *)

\* largest timestamp a ticker or trade frame carries
MaxTs == 1

\* dict.get(key, default)
get(data, key, default) == IF key \in DOMAIN data THEN data[key] ELSE default

\* the "msg" of a ticker frame: each key may be missing.  Of the eight fields of
\* a Tick the model keeps ts and price; the other six are handled the same way
TickMsgs ==
    { [ts |-> t, price |-> p] : t \in 1..MaxTs, p \in Prices }
        \cup { [ts |-> t] : t \in 1..MaxTs } \cup { [price |-> p] : p \in Prices }

\* the "msg" of a trade frame; of the five fields of a Trade the model keeps ts
\* and side
TradeMsgs ==
    { [ts |-> t, taker_side |-> sd] : t \in 1..MaxTs, sd \in {"yes", "no"} }
        \cup { [ts |-> t] : t \in 1..MaxTs }
        \cup { [taker_side |-> sd] : sd \in {"yes", "no"} }

\* the "msg" of a market_lifecycle frame; "result" may be missing, "yes", "no"
\* or null.  The four timestamps of a Lifecycle are left out: they are read
\* with the same data.get(key, previous value)
LifecycleMsgs ==
    { [is_deactivated |-> d, result |-> r] :
        d \in BOOLEAN, r \in {"yes", "no", None} }
        \cup { [is_deactivated |-> d] : d \in BOOLEAN }
        \cup { [result |-> r] : r \in {"yes", "no", None} }

TickerFrames ==
    { [type |-> "ticker", has_seq |-> FALSE, seq |-> 0, msg |-> m] : m \in TickMsgs }

TradeFrames ==
    { [type |-> "trade", has_seq |-> FALSE, seq |-> 0, msg |-> m] : m \in TradeMsgs }

LifecycleFrames ==
    { [type |-> "market_lifecycle", has_seq |-> FALSE, seq |-> 0, msg |-> m] :
        m \in LifecycleMsgs }

\* Tick.empty(), Trade.empty() and Lifecycle.empty()
SinkInit ==
    /\ h_tick = [ts |-> 0, price |-> 0]
    /\ h_trade = [ts |-> 0, side |-> "fake"]
    /\ h_lifecycle = [is_deactivated |-> TRUE, result |-> None]

\* a dispatch table that hands ticker frames to the trade handler and trade
\* frames to the tick handler
message_type_map_crossed(type) ==
    CASE type \in {"orderbook_snapshot", "orderbook_delta"} -> "_handle_book_update_"
      [] type = "ticker" -> "_handle_trade_"
      [] type = "trade" -> "_handle_ticker_"
      [] type = "fill" -> "_handle_fill_"
      [] type = "market_lifecycle" -> "_handle_market_lifecycle_"
      [] OTHER -> "_handle_unexpected_"

\* KalshiMessageHandler.message_type_map.get(message_type, _handle_unexpected_)
message_type_map(type) ==
    CASE type \in {"orderbook_snapshot", "orderbook_delta"} -> "_handle_book_update_"
      [] type = "ticker" -> "_handle_ticker_"
      [] type = "trade" -> "_handle_trade_"
      [] type = "fill" -> "_handle_fill_"
      [] type = "market_lifecycle" -> "_handle_market_lifecycle_"
      [] OTHER -> "_handle_unexpected_"

\* KalshiTickHandler.process(data): the Tick it leaves.  handlers/ticks.py is
\* imported by handler.py:10 and is not among the sources; the handler is
\* a last-value record whose update takes each field from the message and
\* falls back to the prior value when the field is absent
tick_process(tick, data) ==
    [ts |-> get(data, "ts", tick.ts), price |-> get(data, "price", tick.price)]

\* KalshiTradeHandler.process(data): the Trade it leaves
trade_process(trade, data) ==
    [ts |-> get(data, "ts", trade.ts), side |-> get(data, "taker_side", trade.side)]

\* KalshiLifecycleHandler.process(data): the Lifecycle it leaves
lifecycle_process(lifecycle, data) ==
    [is_deactivated |-> get(data, "is_deactivated", lifecycle.is_deactivated),
     result |-> get(data, "result", lifecycle.result)]

\* the history record of a frame KalshiMessageHandler.handle_message returned from
Handled(message) ==
    [path |-> "handle_message", type |-> message.type, has_seq |-> message.has_seq,
     msg |-> message.msg, branch |-> "none", outcome |-> "ok"]

\* KalshiMessageHandler.handle_message on a ticker frame
HandleTicker(message) ==
    /\ listen_task = "running"
    /\ message_type_map(message.type) = "_handle_ticker_"
    /\ h_tick' = tick_process(h_tick, message.msg)
    /\ last' = Handled(message)
    /\ UNCHANGED <<orderbook, handler_task, h_orderbook, listen_task, last_seq,
                   h_trade, h_lifecycle, pair, client_vars, ext_vars>>

\* KalshiMessageHandler.handle_message on a trade frame
HandleTrade(message) ==
    /\ listen_task = "running"
    /\ message_type_map(message.type) = "_handle_trade_"
    /\ h_trade' = trade_process(h_trade, message.msg)
    /\ last' = Handled(message)
    /\ UNCHANGED <<orderbook, handler_task, h_orderbook, listen_task, last_seq,
                   h_tick, h_lifecycle, pair, client_vars, ext_vars>>

\* KalshiMessageHandler.handle_message on a market_lifecycle frame
HandleMarketLifecycle(message) ==
    /\ listen_task = "running"
    /\ message_type_map(message.type) = "_handle_market_lifecycle_"
    /\ h_lifecycle' = lifecycle_process(h_lifecycle, message.msg)
    /\ last' = Handled(message)
    /\ UNCHANGED <<orderbook, handler_task, h_orderbook, listen_task, last_seq,
                   h_tick, h_trade, pair, client_vars, ext_vars>>

\* no delta pair under way
NoPair == [phase |-> "none", price |-> 0, q |-> 0, before |-> [bids |-> <<>>, asks |-> <<>>]]

\* no id: message.get("id") giving None, a command with no "id" key, an
\* operation that takes or returns no id
NoId == -1

\* no client operation yet
NoOp ==
    [name |-> "none", arg |-> NoId, branch |-> "none", ret |-> NoId,
     reconnected |-> FALSE, outcome |-> "ok"]

\* KalshiWsClient.__init__; the websocket attribute is unset until _connect_
\* no socket: None as the value of WsPool.connection and of the client's websocket
NoSocket == 0

\* the pool's connection ids, range(1, n_connections + 1)
ConnectionIds == {1, 2}

\* WsPool.__init__ and the client that owns the pool before start()
PoolInit ==
    /\ connections = <<>>
    /\ latencies = <<>>
    /\ connection = NoSocket
    /\ ws_handle = NoSocket
    /\ open_sockets = {}
    /\ next_socket = 0
    /\ pingers = [i \in ConnectionIds |-> 0]
    /\ reconnecting = [i \in ConnectionIds |-> 0]
    /\ phase = "new"
    /\ replayed_on = NoSocket

\* no frame has arrived
DispatchInit ==
    /\ inbox = <<>>
    /\ arrivals = 0
    /\ in_progress = {}
    /\ log = <<>>
    /\ queue = <<>>
    /\ m_arrivals = 0
    /\ processed = <<>>

\* market tickers a caller may name
Tickers == {"KXA", "KXB"}

\* State.tickers as State._initialize_ loads it from the tickers file
state_tickers == {"KXA"}

\* State._initialize_: State.tickers is the list the file holds
SupInit ==
    /\ State_tickers = state_tickers
    /\ tickers_yaml = state_tickers
    /\ ended = FALSE
    /\ _running = FALSE
    /\ poll_task = "new"
    /\ rejected = {}
    /\ listeners = {}
    /\ loops = 0

ExtInit ==
    /\ clock = 0
    /\ PoolInit
    /\ DispatchInit
    /\ SupInit

ClientInit ==
    /\ websocket = None
    /\ subscriptions = <<>>
    /\ pending_unsubscriptions = {}
    /\ _id_counter = 0
    /\ sent = <<>>
    /\ op = NoOp
    /\ allocated = {}

Init ==
    /\ orderbook = [bids |-> <<>>, asks |-> <<>>]
    /\ handler_task = "running"
    /\ h_orderbook = empty
    /\ listen_task = "running"
    /\ last = [path |-> "none", type |-> "none", has_seq |-> FALSE,
               msg |-> [channel |-> "none"], branch |-> "none", outcome |-> "ok"]
    /\ last_seq = 0
    /\ SinkInit
    /\ pair = NoPair
    /\ ClientInit
    /\ ExtInit

MainNext ==
    \/ \E m \in SnapshotFrames : UpdateHandler(m)
    \/ \E m \in DeltaFrames : UpdateHandler(m)
    \/ \E m \in OtherFrames : UpdateHandlerOther(m)

MainSpec == Init /\ [][MainNext]_vars

HandlerNext ==
    \/ \E m \in SnapshotFrames \cup DeltaFrames : HandleBookUpdate(m)
    \/ \E m \in UnexpectedFrames : HandleUnexpected(m)
    \/ \E m \in SnapshotFrames \cup DeltaFrames \cup UntypedFrames \cup UnexpectedFrames :
          Process(m)

HandlerSpec == Init /\ [][HandlerNext]_vars

\* KalshiMessageHandler.handle_message fed frames of every type the feed sends
SinkNext ==
    \/ \E m \in SnapshotFrames \cup DeltaFrames : HandleBookUpdate(m)
    \/ \E m \in UnexpectedFrames : HandleUnexpected(m)
    \/ \E m \in TickerFrames \cup TradeFrames : HandleTicker(m)
    \/ \E m \in TickerFrames \cup TradeFrames : HandleTrade(m)
    \/ \E m \in LifecycleFrames : HandleMarketLifecycle(m)

SinkSpec == Init /\ [][SinkNext]_vars

(* ------------------- two markets on one subscription ------------------- *)

\* the market tickers of the tickers file: the one subscribe command names them all
MarketTickers == {"KXA", "KXB"}

\* the single Orderbook main() creates is the book update_handler consults for
\* every market: no code keys a book by market_ticker
BookOf(ob, market_ticker) == ob

\* snapshot frames as on the wire, msg naming the market they quote
MarketSnapshotFrames ==
    { [type |-> "orderbook_snapshot", has_seq |-> TRUE, seq |-> s,
       msg |-> [market_ticker |-> t, yes |-> y, no |-> n]] :
         s \in Seqs, t \in MarketTickers, y \in WireLists, n \in WireLists }

\* delta frames as on the wire, msg naming the market they quote
MarketDeltaFrames ==
    { [type |-> "orderbook_delta", has_seq |-> TRUE, seq |-> s,
       msg |-> [market_ticker |-> t, price |-> p, delta |-> d, side |-> sd]] :
         s \in Seqs, t \in MarketTickers, p \in Prices, d \in Deltas, sd \in {"yes", "no"} }

MarketsNext ==
    \/ \E m \in MarketSnapshotFrames : UpdateHandler(m)
    \/ \E m \in MarketDeltaFrames : UpdateHandler(m)

MarketsSpec == Init /\ [][MarketsNext]_vars

(* --------------- delta(+q') then delta(-q') on a YES level -------------- *)

\* a side of a book: levels of distinct prices, each of quantity 1..MaxQty
BookSides ==
    { l \in UNION { [1..n -> [price : Prices, quantity : 1..MaxQty]] :
                      n \in 0..Cardinality(Prices) } :
        \A i, j \in 1..Len(l) : i # j => l[i].price # l[j].price }

\* the books update and refresh leave behind: both sides sorted
Books == { sort([bids |-> b, asks |-> a]) : b \in BookSides, a \in BookSides }

\* update_handler holding any such book
RoundTripInit ==
    /\ orderbook \in Books
    /\ handler_task = "running"
    /\ h_orderbook = empty
    /\ listen_task = "running"
    /\ last = [path |-> "none", type |-> "none", has_seq |-> FALSE,
               msg |-> [channel |-> "none"], branch |-> "none", outcome |-> "ok"]
    /\ last_seq = 0
    /\ SinkInit
    /\ pair = NoPair
    /\ ClientInit
    /\ ExtInit

\* one iteration of update_handler on a delta frame that carries a seq
UpdateHandlerDelta(message) ==
    /\ handler_task = "running"
    /\ orderbook' = process(orderbook, message)
    /\ last_seq' = seq_after(last_seq, message)
    /\ last' = [path |-> "update_handler", type |-> message.type,
                has_seq |-> message.has_seq, msg |-> message.msg,
                branch |-> process_branch(orderbook, message), outcome |-> "ok"]
    /\ UNCHANGED <<handler_task, h_orderbook, listen_task, sink_vars, client_vars, ext_vars>>

\* the yes delta of +q at the price p of a bid level
DeltaPlus(p, q) ==
    /\ pair.phase = "none"
    /\ \E i \in 1..Len(orderbook.bids) : orderbook.bids[i].price = p
    /\ UpdateHandlerDelta([type |-> "orderbook_delta", has_seq |-> TRUE, seq |-> 1,
                           msg |-> [price |-> p, delta |-> q, side |-> "yes"]])
    /\ pair' = [phase |-> "plus", price |-> p, q |-> q, before |-> orderbook]

\* the yes delta of -q at the same price, next on the queue
DeltaMinus ==
    /\ pair.phase = "plus"
    /\ UpdateHandlerDelta([type |-> "orderbook_delta", has_seq |-> TRUE, seq |-> 2,
                           msg |-> [price |-> pair.price, delta |-> 0 - pair.q,
                                    side |-> "yes"]])
    /\ pair' = [pair EXCEPT !.phase = "minus"]

RoundTripNext ==
    \/ \E p \in Prices, q \in 1..MaxQty : DeltaPlus(p, q)
    \/ DeltaMinus

RoundTripSpec == RoundTripInit /\ [][RoundTripNext]_vars

(* --------------- packages/kalshi/src/kalshi/ws/client.py --------------- *)
(* KalshiWsClient's subscription management; KalshiWs of                    *)
(* src/pydiction/websocket.py lines 66-246 is the same code.  Each          *)
(* operation runs to its end as one step.  created_ts and updated_ts of a   *)
(* Subscription are left out, and ticker lists are sets: the code turns     *)
(* them into sets before it compares them and stores list(set).             *)

\* largest id generate_subscription_id hands out
MaxId == 3

\* longest list of ids a caller passes to unsubscribe
MaxIds == 3

\* the lists of ids a caller may pass to unsubscribe
IdLists == UNION { [1..n -> 1..MaxId] : n \in 0..MaxIds }

\* channel lists a caller subscribes to
ChannelLists == {<<"orderbook_delta">>, <<"ticker", "trade">>}

\* namedtuple Subscription
Subscription(channels, tickers, active) ==
    [channels |-> channels, tickers |-> tickers, active |-> active]

\* a params dict with no "market_tickers" key
NoTickers == {Absent}

\* a command dict as json.dumps sends it; a key it does not have is NoId (id),
\* <<>> (channels, sids), NoTickers (market_tickers) or Absent (action)
Command(id, cmd, channels, sids, market_tickers, action) ==
    [id |-> id, cmd |-> cmd, channels |-> channels, sids |-> sids,
     market_tickers |-> market_tickers, action |-> action]

\* the keys S of the dict in iteration order: insertion order, which is
\* increasing id
RECURSIVE IdsInOrder(_)
IdsInOrder(S) ==
    IF S = {} THEN <<>> ELSE LET m == Min(S) IN <<m>> \o IdsInOrder(S \ {m})

\* self.subscriptions[id] = sub
set_item(subs, id, sub) ==
    [i \in DOMAIN subs \cup {id} |-> IF i = id THEN sub ELSE subs[i]]

\* self.subscriptions.pop(id) for every id of ids
pop_items(subs, ids) == [i \in DOMAIN subs \ ids |-> subs[i]]

\* generate_subscription_id returning the counter without advancing it
generate_subscription_id_stuck(counter) == counter

\* generate_subscription_id: the counter after the call, which is the id returned
generate_subscription_id(counter) == counter + 1

\* add_subscription(channels, all_markets) on an open socket
add_subscription(subs, counter, channels, all_markets) ==
    LET subscription_id == generate_subscription_id(counter)
        subscription ==
            Subscription(channels,
                         IF all_markets THEN {"all_markets"} ELSE State_tickers, FALSE)
        subscription_message ==
            Command(subscription_id, "subscribe", channels, <<>>,
                    IF all_markets THEN NoTickers ELSE State_tickers, Absent)
    IN  [subscriptions |->
            set_item(subs, subscription_id, [subscription EXCEPT !.active = TRUE]),
         counter |-> subscription_id,
         sent |-> <<subscription_message>>,
         ret |-> subscription_id]

\* update_subscription with the delete_markets command sent before add_markets
update_subscription_delete_first(subs, counter, subscription_id, updated_tickers) ==
    IF subscription_id \notin DOMAIN subs
    THEN [subscriptions |-> subs, counter |-> counter, sent |-> <<>>, ret |-> <<>>,
          ids |-> {}]
    ELSE LET subscription == subs[subscription_id]
             tickers_to_add == updated_tickers \ subscription.tickers
             tickers_to_delete == subscription.tickers \ updated_tickers
             delete_id == generate_subscription_id(counter)
             counter1 == IF tickers_to_delete # {} THEN delete_id ELSE counter
             add_id == generate_subscription_id(counter1)
             counter2 == IF tickers_to_add # {} THEN add_id ELSE counter1
         IN  [subscriptions |-> [subs EXCEPT ![subscription_id].tickers = updated_tickers],
              counter |-> counter2,
              sent |->
                (IF tickers_to_delete # {}
                 THEN <<Command(delete_id, "update_subscription", <<>>,
                                <<subscription_id>>, tickers_to_delete, "delete_markets")>>
                 ELSE <<>>)
                \o (IF tickers_to_add # {}
                    THEN <<Command(add_id, "update_subscription", <<>>,
                                   <<subscription_id>>, tickers_to_add, "add_markets")>>
                    ELSE <<>>),
              ret |-> (IF tickers_to_delete # {} THEN <<"delete_markets">> ELSE <<>>)
                        \o (IF tickers_to_add # {} THEN <<"add_markets">> ELSE <<>>),
              ids |-> (IF tickers_to_add # {} THEN {add_id} ELSE {})
                        \cup (IF tickers_to_delete # {} THEN {delete_id} ELSE {})]

\* update_subscription(subscription_id, updated_tickers)
update_subscription(subs, counter, subscription_id, updated_tickers) ==
    IF subscription_id \notin DOMAIN subs
    THEN [subscriptions |-> subs, counter |-> counter, sent |-> <<>>, ret |-> <<>>,
          ids |-> {}]
    ELSE LET subscription == subs[subscription_id]
             current_tickers == subscription.tickers
             new_tickers == updated_tickers
             tickers_to_add == new_tickers \ current_tickers
             tickers_to_delete == current_tickers \ new_tickers
             add_id == generate_subscription_id(counter)
             counter1 == IF tickers_to_add # {} THEN add_id ELSE counter
             delete_id == generate_subscription_id(counter1)
             counter2 == IF tickers_to_delete # {} THEN delete_id ELSE counter1
             add_message ==
                 Command(add_id, "update_subscription", <<>>, <<subscription_id>>,
                         tickers_to_add, "add_markets")
             delete_message ==
                 Command(delete_id, "update_subscription", <<>>, <<subscription_id>>,
                         tickers_to_delete, "delete_markets")
         IN  [subscriptions |-> [subs EXCEPT ![subscription_id].tickers = new_tickers],
              counter |-> counter2,
              sent |-> (IF tickers_to_add # {} THEN <<add_message>> ELSE <<>>)
                         \o (IF tickers_to_delete # {} THEN <<delete_message>> ELSE <<>>),
              ret |-> (IF tickers_to_add # {} THEN <<"add_markets">> ELSE <<>>)
                        \o (IF tickers_to_delete # {} THEN <<"delete_markets">> ELSE <<>>),
              ids |-> (IF tickers_to_add # {} THEN {add_id} ELSE {})
                        \cup (IF tickers_to_delete # {} THEN {delete_id} ELSE {})]

\* the elements of a list
Range(list) == { list[k] : k \in 1..Len(list) }

\* for subscription_id in ids: self.subscriptions.pop(subscription_id); popping
\* an id a second time raises KeyError and ends the loop
RECURSIVE pop_each(_, _)
pop_each(subs, ids) ==
    IF ids = <<>> THEN [subscriptions |-> subs, outcome |-> "ok"]
    ELSE IF Head(ids) \notin DOMAIN subs
    THEN [subscriptions |-> subs, outcome |-> "KeyError"]
    ELSE pop_each(pop_items(subs, {Head(ids)}), Tail(ids))

\* unsubscribe(subscription_ids); the list of ids may name an id twice
unsubscribe(subs, pending, subscription_ids) ==
    LET valid_subscription_ids ==
            SelectSeq(subscription_ids, LAMBDA sid : sid \in DOMAIN subs)
        popped == pop_each(subs, valid_subscription_ids)
    IN  IF valid_subscription_ids # <<>>
        THEN [subscriptions |-> popped.subscriptions,
              pending |-> pending \cup Range(valid_subscription_ids),
              sent |-> <<Command(NoId, "unsubscribe", <<>>,
                                 valid_subscription_ids, NoTickers, Absent)>>,
              ret |-> valid_subscription_ids,
              outcome |-> popped.outcome]
        ELSE [subscriptions |-> subs, pending |-> pending, sent |-> <<>>,
              ret |-> <<>>, outcome |-> "ok"]

\* _handle_forced_unsubscription_ with a pending id left in the pending set
handle_forced_unsubscription_keep_pending(subs, pending, counter, subscription_id) ==
    IF subscription_id \in DOMAIN subs /\ subscription_id \notin pending
    THEN LET r == add_subscription(subs, counter, subs[subscription_id].channels, FALSE)
         IN  [subscriptions |-> r.subscriptions, pending |-> pending,
              counter |-> r.counter, sent |-> r.sent, ret |-> r.ret,
              branch |-> "resubscribe"]
    ELSE [subscriptions |-> subs, pending |-> pending, counter |-> counter,
          sent |-> <<>>, ret |-> NoId, branch |-> "none"]

\* _handle_forced_unsubscription_ re-subscribing to the other channel list
handle_forced_unsubscription_other_channels(subs, pending, counter, subscription_id) ==
    IF subscription_id \in DOMAIN subs /\ subscription_id \notin pending
    THEN LET r == add_subscription(subs, counter,
                     CHOOSE c \in ChannelLists : c # subs[subscription_id].channels,
                     FALSE)
         IN  [subscriptions |-> r.subscriptions, pending |-> pending,
              counter |-> r.counter, sent |-> r.sent, ret |-> r.ret,
              branch |-> "resubscribe"]
    ELSE IF subscription_id \in pending
    THEN [subscriptions |-> subs, pending |-> pending \ {subscription_id},
          counter |-> counter, sent |-> <<>>, ret |-> NoId, branch |-> "pending"]
    ELSE [subscriptions |-> subs, pending |-> pending, counter |-> counter,
          sent |-> <<>>, ret |-> NoId, branch |-> "none"]

\* _handle_forced_unsubscription_(subscription_id)
_handle_forced_unsubscription_(subs, pending, counter, subscription_id) ==
    IF subscription_id \in DOMAIN subs /\ subscription_id \notin pending
    THEN LET subscription == subs[subscription_id]
             r == add_subscription(subs, counter, subscription.channels, FALSE)
         IN  [subscriptions |-> r.subscriptions, pending |-> pending,
              counter |-> r.counter, sent |-> r.sent, ret |-> r.ret,
              branch |-> "resubscribe"]
    ELSE IF subscription_id \in pending
    THEN [subscriptions |-> subs, pending |-> pending \ {subscription_id},
          counter |-> counter, sent |-> <<>>, ret |-> NoId, branch |-> "pending"]
    ELSE [subscriptions |-> subs, pending |-> pending, counter |-> counter,
          sent |-> <<>>, ret |-> NoId, branch |-> "none"]

\* resubscribe_all: the commands it sends, one per active subscription in dict
\* order; the only field it writes is updated_ts
resubscribe_all(subs) ==
    LET ids == IdsInOrder({ i \in DOMAIN subs : subs[i].active })
    IN  [k \in 1..Len(ids) |->
            Command(ids[k], "subscribe", subs[ids[k]].channels, <<>>,
                    subs[ids[k]].tickers, Absent)]

\* the record of a client operation
Op(name, arg, branch, ret, reconnected, outcome) ==
    [name |-> name, arg |-> arg, branch |-> branch, ret |-> ret,
     reconnected |-> reconnected, outcome |-> outcome]

\* start(): _connect_ takes the pool's connection as self.websocket
Start ==
    /\ websocket = None
    /\ websocket' = "open"
    /\ sent' = <<>>
    /\ op' = Op("start", NoId, "none", NoId, FALSE, "ok")
    /\ UNCHANGED <<subscriptions, pending_unsubscriptions, _id_counter,
                   allocated, book_vars, pair, ext_vars>>

\* add_subscription before start(): the id is generated, then reading
\* self.websocket raises AttributeError
AddSubscriptionUnconnected(channels, all_markets) ==
    /\ websocket = None
    /\ _id_counter < MaxId
    /\ _id_counter' = generate_subscription_id(_id_counter)
    /\ allocated' = allocated \cup {generate_subscription_id(_id_counter)}
    /\ sent' = <<>>
    /\ op' = Op("add_subscription", NoId, "none", NoId, FALSE, "AttributeError")
    /\ UNCHANGED <<websocket, subscriptions, pending_unsubscriptions,
                   book_vars, pair, ext_vars>>

AddSubscription(channels, all_markets) ==
    LET r == add_subscription(subscriptions, _id_counter, channels, all_markets)
    IN  /\ websocket = "open"
        /\ _id_counter < MaxId
        /\ subscriptions' = r.subscriptions
        /\ _id_counter' = r.counter
        /\ allocated' = allocated \cup {r.ret}
        /\ sent' = r.sent
        /\ op' = Op("add_subscription", NoId, "none", r.ret, FALSE, "ok")
        /\ UNCHANGED <<websocket, pending_unsubscriptions, book_vars, pair, ext_vars>>

UpdateSubscription(subscription_id, updated_tickers) ==
    LET r == update_subscription(subscriptions, _id_counter, subscription_id,
                                 updated_tickers)
    IN  /\ r.counter <= MaxId
        /\ subscriptions' = r.subscriptions
        /\ _id_counter' = r.counter
        /\ allocated' = allocated \cup r.ids
        /\ sent' = r.sent
        /\ op' = [name |-> "update_subscription", arg |-> subscription_id,
                   updated_tickers |-> updated_tickers,
                   current_tickers |-> IF subscription_id \in DOMAIN subscriptions
                                       THEN subscriptions[subscription_id].tickers
                                       ELSE {},
                   branch |-> IF subscription_id \in DOMAIN subscriptions
                              THEN "known" ELSE "unknown",
                   ret |-> r.ret, reconnected |-> FALSE, outcome |-> "ok"]
        /\ UNCHANGED <<websocket, pending_unsubscriptions, book_vars, pair, ext_vars>>

Unsubscribe(subscription_ids) ==
    LET r == unsubscribe(subscriptions, pending_unsubscriptions, subscription_ids)
    IN  /\ subscriptions' = r.subscriptions
        /\ pending_unsubscriptions' = r.pending
        /\ sent' = r.sent
        /\ op' = Op("unsubscribe", Range(subscription_ids), "none", r.ret, FALSE,
                    r.outcome)
        /\ UNCHANGED <<websocket, _id_counter, allocated, book_vars, pair, ext_vars>>

\* handle_message on {"type": "subscribed", "id": id}, the server's answer to
\* the subscribe command of a subscription: the frame is logged
HandleSubscribed(id) ==
    /\ websocket = "open"
    /\ listen_task = "running"
    /\ id \in DOMAIN subscriptions
    /\ sent' = <<>>
    /\ op' = Op("subscribed", id, "none", NoId, FALSE, "ok")
    /\ UNCHANGED <<websocket, subscriptions, pending_unsubscriptions, _id_counter,
                   allocated, book_vars, pair, ext_vars>>

\* handle_message on {"type": "unsubscribed", "sid": sid}
HandleUnsubscribed(sid) ==
    LET r == _handle_forced_unsubscription_(subscriptions, pending_unsubscriptions,
                                            _id_counter, sid)
    IN  /\ websocket = "open"
        /\ listen_task = "running"
        /\ r.counter <= MaxId
        /\ subscriptions' = r.subscriptions
        /\ pending_unsubscriptions' = r.pending
        /\ _id_counter' = r.counter
        /\ allocated' = allocated \cup (IF r.ret = NoId THEN {} ELSE {r.ret})
        /\ sent' = r.sent
        /\ op' = Op("unsubscribed", sid, r.branch, r.ret, FALSE, "ok")
        /\ UNCHANGED <<websocket, book_vars, pair, ext_vars>>

\* handle_message on {"type": "error", "id": id, "msg": ...}, the server's
\* answer to the command the client sent with that id: the frame is logged
HandleError(id) ==
    /\ websocket = "open"
    /\ listen_task = "running"
    /\ id \in allocated
    /\ sent' = <<>>
    /\ op' = Op("error", id, "none", NoId, FALSE, "ok")
    /\ UNCHANGED <<websocket, subscriptions, pending_unsubscriptions, _id_counter,
                   allocated, book_vars, pair, ext_vars>>

\* listen sees ConnectionClosed: _reconnect_ closes the socket, connects until
\* an attempt succeeds and replays the subscriptions on the new socket
Reconnect ==
    /\ websocket = "open"
    /\ listen_task = "running"
    /\ sent' = resubscribe_all(subscriptions)
    /\ op' = Op("_reconnect_", NoId, "none", NoId, TRUE, "ok")
    /\ UNCHANGED <<websocket, subscriptions, pending_unsubscriptions, _id_counter,
                   allocated, book_vars, pair, ext_vars>>

\* _await_confirmation(subscription_id) once confirmation_timeout has elapsed;
\* the method is the client's only timeout path and add_subscription does not
\* schedule it, so it runs when a caller awaits it
AwaitConfirmation(subscription_id) ==
    /\ websocket = "open"
    /\ sent' = IF subscription_id \in DOMAIN subscriptions
               THEN resubscribe_all(subscriptions) ELSE <<>>
    /\ op' = Op("_await_confirmation", subscription_id, "none", NoId,
                subscription_id \in DOMAIN subscriptions, "ok")
    /\ UNCHANGED <<websocket, subscriptions, pending_unsubscriptions, _id_counter,
                   allocated, book_vars, pair, ext_vars>>

ClientNext ==
    \/ Start
    \/ \E c \in ChannelLists, a \in BOOLEAN : AddSubscriptionUnconnected(c, a)
    \/ \E c \in ChannelLists, a \in BOOLEAN : AddSubscription(c, a)
    \/ \E i \in 1..MaxId, t \in SUBSET Tickers : UpdateSubscription(i, t)
    \/ \E ids \in SUBSET (1..MaxId) : Unsubscribe(IdsInOrder(ids))
    \/ \E i \in 1..MaxId : HandleSubscribed(i)
    \/ \E i \in 1..MaxId : HandleUnsubscribed(i)
    \/ \E i \in 1..MaxId : HandleError(i)
    \/ Reconnect
    \/ \E i \in 1..MaxId : AwaitConfirmation(i)

ClientSpec == Init /\ [][ClientNext]_vars

(* ------------------- State.refresh (common/state.py) ------------------- *)

\* somebody edits the tickers file
EditTickersFile(market_tickers) ==
    /\ market_tickers # tickers_yaml
    /\ tickers_yaml' = market_tickers
    /\ UNCHANGED <<State_tickers, ended, status_vars, rejected, overlap_vars, book_vars, pair, client_vars,
                   clock, pool_vars, dispatch_vars>>

\* one iteration of State.refresh: after the sleep both files are loaded and
\* _load_(config, tickers) assigns State.tickers; the iteration calls nothing
\* else and sends nothing
Refresh ==
    /\ State_tickers' = tickers_yaml
    /\ sent' = <<>>
    /\ op' = Op("refresh", NoId,
                IF tickers_yaml # State_tickers THEN "changed" ELSE "unchanged",
                NoId, FALSE, "ok")
    /\ UNCHANGED <<tickers_yaml, ended, status_vars, rejected, overlap_vars, websocket, subscriptions,
                   pending_unsubscriptions, _id_counter, allocated, book_vars, pair,
                   clock, pool_vars, dispatch_vars>>

\* the client and its callers next to the task that runs State.refresh
RefreshNext ==
    \/ Start
    \/ \E c \in ChannelLists, a \in BOOLEAN : AddSubscription(c, a)
    \/ \E i \in 1..MaxId, t \in SUBSET Tickers : UpdateSubscription(i, t)
    \/ \E t \in SUBSET Tickers : EditTickersFile(t)
    \/ Refresh

\* the refresh loop never ends, so an iteration that can be taken is taken;
\* nothing in the repository calls update_subscription, so no fairness for it
RefreshSpec == Init /\ [][RefreshNext]_vars /\ WF_vars(Refresh)

\* The client called with any list of ids, one that names an id twice included.
UnsubscribeNext ==
    \/ Start
    \/ \E c \in ChannelLists, a \in BOOLEAN : AddSubscription(c, a)
    \/ \E ids \in IdLists : Unsubscribe(ids)

UnsubscribeSpec == Init /\ [][UnsubscribeNext]_vars

(* The client with the two timestamps of a Subscription.  time.time() reads   *)
(* clock; time passes before an operation starts and while it awaits a send.  *)

\* latest reading of the clock
MaxClock == 1

\* largest number of subscriptions added
MaxSubs == 2

\* namedtuple Subscription with created_ts and updated_ts
TimedSubscription(channels, tickers, created_ts, updated_ts, active) ==
    [channels |-> channels, tickers |-> tickers, created_ts |-> created_ts,
     updated_ts |-> updated_ts, active |-> active]

\* add_subscription begun when the clock reads t0, its send done when it reads t1
add_subscription_at(subs, counter, channels, all_markets, t0, t1) ==
    LET r == add_subscription(subs, counter, channels, all_markets)
        subscription ==
            TimedSubscription(channels,
                              IF all_markets THEN {"all_markets"} ELSE state_tickers,
                              t0, t0, FALSE)
    IN  [r EXCEPT !.subscriptions =
            set_item(subs, r.ret,
                     [subscription EXCEPT !.updated_ts = t1, !.active = TRUE])]

\* resubscribe_all's writes with created_ts stamped as well
resubscribe_all_restamp(subs, times) ==
    [i \in DOMAIN subs |->
        IF subs[i].active
        THEN [subs[i] EXCEPT !.created_ts = times[i], !.updated_ts = times[i]]
        ELSE subs[i]]

\* resubscribe_all's writes: subscription._replace(updated_ts=time.time()) for
\* every active subscription, times[i] being the clock after the send for id i
resubscribe_all_updates(subs, times) ==
    [i \in DOMAIN subs |->
        IF subs[i].active THEN [subs[i] EXCEPT !.updated_ts = times[i]] ELSE subs[i]]

TimedAddSubscription(channels, all_markets, t0, t1) ==
    LET r == add_subscription_at(subscriptions, _id_counter, channels, all_markets,
                                 t0, t1)
    IN  /\ websocket = "open"
        /\ _id_counter < MaxSubs
        /\ clock <= t0
        /\ t0 <= t1
        /\ clock' = t1
        /\ subscriptions' = r.subscriptions
        /\ _id_counter' = r.counter
        /\ allocated' = allocated \cup {r.ret}
        /\ sent' = r.sent
        /\ op' = Op("add_subscription", NoId, "none", r.ret, FALSE, "ok")
        /\ UNCHANGED <<websocket, pending_unsubscriptions, book_vars, pair, pool_vars, dispatch_vars, sup_vars>>

\* listen sees ConnectionClosed: _reconnect_ connects and runs resubscribe_all
TimedReconnect(times) ==
    /\ websocket = "open"
    /\ listen_task = "running"
    /\ clock <= times[1]
    /\ \A i \in 1..(MaxSubs - 1) : times[i] <= times[i + 1]
    /\ clock' = times[MaxSubs]
    /\ sent' = resubscribe_all(subscriptions)
    /\ subscriptions' = resubscribe_all_updates(subscriptions, times)
    /\ op' = Op("_reconnect_", NoId, "none", NoId, TRUE, "ok")
    /\ UNCHANGED <<websocket, pending_unsubscriptions, _id_counter, allocated,
                   book_vars, pair, pool_vars, dispatch_vars, sup_vars>>

TimedNext ==
    \/ Start
    \/ \E c \in ChannelLists, a \in BOOLEAN, t0 \in 0..MaxClock, t1 \in 0..MaxClock :
           TimedAddSubscription(c, a, t0, t1)
    \/ \E ids \in SUBSET (1..MaxSubs) : Unsubscribe(IdsInOrder(ids))
    \/ \E times \in [1..MaxSubs -> 0..MaxClock] : TimedReconnect(times)

TimedSpec == Init /\ [][TimedNext]_vars

(* ---------------- packages/kalshi/src/kalshi/ws/pool.py ---------------- *)
(* WsPool and the client's start() and _reconnect_, which connect through   *)
(* pool.run().  A socket is the number of the websocket_factory call that   *)
(* returned it.  run() is two steps, the creation of the connections and,   *)
(* once the warm-up sleep is over, the election; the ping tasks run in      *)
(* between.  The dummy connection of _create_connections_ is opened and     *)
(* closed within the first step, and usage_counts, which nothing reads, is  *)
(* left out.                                                                *)

\* largest number of sockets websocket_factory returns
MaxSockets == 4

\* largest number of samples a ping task adds to one window
MaxSamples == 2

\* round-trip times a ping measures
RTTs == {1, 2}

\* WsPool.DEQUE_MAXLEN
DEQUE_MAXLEN == 10

\* deque(maxlen=DEQUE_MAXLEN).append(latency)
deque_append(window, latency) ==
    IF Len(window) = DEQUE_MAXLEN
    THEN Tail(window) \o <<latency>>
    ELSE Append(window, latency)

\* sum(window)
RECURSIVE Sum(_)
Sum(window) == IF window = <<>> THEN 0 ELSE Head(window) + Sum(Tail(window))

\* the election key of w1 is at most that of w2; the key of a window is
\* sum/len, or float("inf") when the window is empty
mean_le(w1, w2) ==
    IF w2 = <<>> THEN TRUE
    ELSE IF w1 = <<>> THEN FALSE
    ELSE Sum(w1) * Len(w2) <= Sum(w2) * Len(w1)

\* an election that takes any connection id
any_connection_ids(lat) == DOMAIN lat

\* the ids min(self.latencies, key=...) may return: those of least key.  Among
\* equal keys min returns the first in dict order, which is the order
\* random.shuffle gave the ids.
min_latency_connection_ids(lat) ==
    { m \in DOMAIN lat : \A j \in DOMAIN lat : mean_le(lat[m], lat[j]) }

\* _create_connections_: n_connections new sockets, one per connection id
_create_connections_(next) == [i \in ConnectionIds |-> next + i]

\* the sockets a dict of connections holds
Sockets(conns) == { conns[i] : i \in DOMAIN conns }

\* pool.run() up to its warm-up sleep: the connections and their windows are
\* replaced and monitor() starts one more ping task per connection id
RunCreate ==
    /\ next_socket + Cardinality(ConnectionIds) <= MaxSockets
    /\ connections' = _create_connections_(next_socket)
    /\ latencies' = [i \in ConnectionIds |-> <<>>]
    /\ open_sockets' = open_sockets \cup Sockets(_create_connections_(next_socket))
    /\ next_socket' = next_socket + Cardinality(ConnectionIds)
    /\ pingers' = [i \in ConnectionIds |-> pingers[i] + 1]
    /\ UNCHANGED <<connection, ws_handle, reconnecting, replayed_on>>

\* websocket_factory raises inside pool.run(): nothing is assigned
RunFails ==
    UNCHANGED <<connections, latencies, connection, ws_handle, open_sockets,
                next_socket, pingers, reconnecting, replayed_on>>

\* the election without _connect_'s assignment of self.websocket
elect_without_websocket(m) ==
    /\ m \in DOMAIN latencies
    /\ connection' = connections[m]
    /\ ws_handle' = ws_handle
    /\ UNCHANGED <<connections, latencies, open_sockets, next_socket, pingers,
                   reconnecting>>

\* the rest of pool.run() and of _connect_: the election, then
\* self.websocket = self.pool.connection
Elect(m) ==
    /\ m \in min_latency_connection_ids(latencies)
    /\ connection' = connections[m]
    /\ ws_handle' = connections[m]
    /\ UNCHANGED <<connections, latencies, open_sockets, next_socket, pingers,
                   reconnecting>>

\* start(): _connect_ enters pool.run(); an exception leaves start()
StartConnect(ok) ==
    /\ phase = "new"
    /\ IF ok THEN RunCreate /\ phase' = "start_warmup"
             ELSE RunFails /\ phase' = "start_failed"
    /\ UNCHANGED <<book_vars, pair, client_vars, clock, dispatch_vars, sup_vars>>

\* start(): the warm-up is over, _connect_ takes the elected socket and
\* creates the listen task
StartElected(m) ==
    /\ phase = "start_warmup"
    /\ Elect(m)
    /\ phase' = "listening"
    /\ websocket' = "open"
    /\ UNCHANGED <<subscriptions, pending_unsubscriptions, _id_counter, sent, op,
                   allocated, replayed_on, book_vars, pair, clock, dispatch_vars, sup_vars>>

\* ping_task: _ping_connection_ appends the time connection.ping() took
PingConnection(i, latency) ==
    /\ i \in DOMAIN connections
    /\ pingers[i] > 0
    /\ connections[i] \in open_sockets
    /\ Len(latencies[i]) < MaxSamples
    /\ latencies' = [latencies EXCEPT ![i] = deque_append(@, latency)]
    /\ UNCHANGED <<connections, connection, ws_handle, open_sockets, next_socket,
                   pingers, reconnecting, phase, replayed_on, book_vars, pair,
                   client_vars, clock, dispatch_vars, sup_vars>>

\* ping_task: connection.ping() raises on a closed socket and the task enters
\* _reconnect_connection_, which closes the connection
PingException(i) ==
    /\ i \in DOMAIN connections
    /\ pingers[i] > 0
    /\ connections[i] \notin open_sockets
    /\ pingers' = [pingers EXCEPT ![i] = @ - 1]
    /\ reconnecting' = [reconnecting EXCEPT ![i] = @ + 1]
    /\ open_sockets' = open_sockets \ {connections[i]}
    /\ UNCHANGED <<connections, latencies, connection, ws_handle, next_socket,
                   phase, replayed_on, book_vars, pair, client_vars, clock, dispatch_vars, sup_vars>>

\* _reconnect_connection_ with every id's socket and window replaced
reconnect_connection_all(conns, lat, connection_id, new_connection) ==
    [connections |-> [i \in DOMAIN conns |-> new_connection],
     latencies |-> [i \in DOMAIN lat |-> <<>>]]

\* _reconnect_connection_: what an attempt that succeeds assigns
reconnect_connection(conns, lat, connection_id, new_connection) ==
    [connections |-> [conns EXCEPT ![connection_id] = new_connection],
     latencies |-> [lat EXCEPT ![connection_id] = <<>>]]

\* one attempt of the loop of _reconnect_connection_(i); after one that fails
\* the task sleeps RECONNECT_DELAY and tries again
ReconnectConnection(i, ok) ==
    /\ reconnecting[i] > 0
    /\ IF ok
       THEN LET r == reconnect_connection(connections, latencies, i, next_socket + 1)
            IN  /\ next_socket < MaxSockets
                /\ connections' = r.connections
                /\ latencies' = r.latencies
                /\ open_sockets' = open_sockets \cup {next_socket + 1}
                /\ next_socket' = next_socket + 1
                /\ reconnecting' = [reconnecting EXCEPT ![i] = @ - 1]
                /\ pingers' = [pingers EXCEPT ![i] = @ + 1]
       ELSE UNCHANGED <<connections, latencies, open_sockets, next_socket,
                        reconnecting, pingers>>
    /\ UNCHANGED <<connection, ws_handle, phase, replayed_on, book_vars, pair,
                   client_vars, clock, dispatch_vars, sup_vars>>

\* the server or the network closes a socket the pool or the client holds
SocketClosed(h) ==
    /\ h \in open_sockets
    /\ h \in Sockets(connections) \cup {ws_handle}
    /\ open_sockets' = open_sockets \ {h}
    /\ UNCHANGED <<connections, latencies, connection, ws_handle, next_socket,
                   pingers, reconnecting, phase, replayed_on, book_vars, pair,
                   client_vars, clock, dispatch_vars, sup_vars>>

\* listen sees ConnectionClosed on the client's socket: _reconnect_ closes it
\* and makes its first attempt, _connect_ entering pool.run()
ListenConnectionClosed(ok) ==
    /\ phase = "listening"
    /\ ws_handle \notin open_sockets
    /\ IF ok THEN RunCreate /\ phase' = "reconnect_warmup"
             ELSE RunFails /\ phase' = "reconnect_sleep"
    /\ UNCHANGED <<book_vars, pair, client_vars, clock, dispatch_vars, sup_vars>>

\* _reconnect_ after asyncio.sleep(reconnection_interval): the next attempt
ReconnectRetry(ok) ==
    /\ phase = "reconnect_sleep"
    /\ IF ok THEN RunCreate /\ phase' = "reconnect_warmup"
             ELSE RunFails /\ phase' = "reconnect_sleep"
    /\ UNCHANGED <<book_vars, pair, client_vars, clock, dispatch_vars, sup_vars>>

\* _reconnect_: the warm-up of the attempt is over; _connect_ takes the elected
\* socket and creates a listen task, then resubscribe_all sends on that
\* socket.  A send on a closed socket raises and the loop sleeps and retries.
ReconnectElected(m) ==
    LET replay == resubscribe_all(subscriptions)
        raised == replay # <<>> /\ connections[m] \notin open_sockets
    IN  /\ phase = "reconnect_warmup"
        /\ Elect(m)
        /\ phase' = IF raised THEN "reconnect_sleep" ELSE "listening"
        /\ sent' = IF raised THEN <<>> ELSE replay
        /\ replayed_on' = IF raised \/ replay = <<>> THEN replayed_on
                           ELSE connections[m]
        /\ op' = Op("_reconnect_", NoId, "none", NoId, ~raised,
                    IF raised THEN "ConnectionClosed" ELSE "ok")
        /\ UNCHANGED <<websocket, subscriptions, pending_unsubscriptions,
                       _id_counter, allocated, book_vars, pair, clock, dispatch_vars, sup_vars>>

PoolNext ==
    \/ \E ok \in BOOLEAN : StartConnect(ok)
    \/ \E m \in ConnectionIds : StartElected(m)
    \/ \E i \in ConnectionIds, latency \in RTTs : PingConnection(i, latency)
    \/ \E i \in ConnectionIds : PingException(i)
    \/ \E i \in ConnectionIds, ok \in BOOLEAN : ReconnectConnection(i, ok)
    \/ \E h \in 1..MaxSockets : SocketClosed(h)
    \/ \E ok \in BOOLEAN : ListenConnectionClosed(ok)
    \/ \E ok \in BOOLEAN : ReconnectRetry(ok)
    \/ \E m \in ConnectionIds : ReconnectElected(m)

PoolSpec == Init /\ [][PoolNext]_vars

\* end(): _disconnect_ closes self.websocket, if there is one, and sets it to
\* None.  A listen task that iterates the socket leaves its loop; a _reconnect_
\* loop under way is not touched and goes on
End ==
    /\ phase \in {"listening", "reconnect_warmup", "reconnect_sleep"}
    /\ ~ended
    /\ ended' = TRUE
    /\ open_sockets' = open_sockets \ {ws_handle}
    /\ ws_handle' = NoSocket
    /\ websocket' = None
    /\ phase' = IF phase = "listening" THEN "stopped" ELSE phase
    /\ sent' = <<>>
    /\ op' = Op("end", NoId, "none", NoId, FALSE, "ok")
    /\ UNCHANGED <<subscriptions, pending_unsubscriptions, _id_counter, allocated,
                   connections, latencies, connection, next_socket, pingers,
                   reconnecting, replayed_on, book_vars, pair, clock,
                   dispatch_vars, config_vars, status_vars, rejected, overlap_vars>>

\* add_subscription while the client's socket is open
AddSubscriptionOpen(channels, all_markets) ==
    /\ ws_handle \in open_sockets
    /\ AddSubscription(channels, all_markets)

\* The client with subscriptions, connected through the pool, whose ping tasks
\* are left to PoolSpec.
ReconnectNext ==
    \/ \E ok \in BOOLEAN : StartConnect(ok)
    \/ \E m \in ConnectionIds : StartElected(m)
    \/ \E c \in ChannelLists, a \in BOOLEAN : AddSubscriptionOpen(c, a)
    \/ \E h \in 1..MaxSockets : SocketClosed(h)
    \/ \E ok \in BOOLEAN : ListenConnectionClosed(ok)
    \/ \E ok \in BOOLEAN : ReconnectRetry(ok)
    \/ \E m \in ConnectionIds : ReconnectElected(m)

ReconnectSpec == Init /\ [][ReconnectNext]_vars

\* the entry of `rejected` for the client's _reconnect_ loop
ClientLoop == 0

\* an attempt of _reconnect_connection_(i) that the server rejects for
\* authentication: websocket_factory re-raises what websockets.connect raised,
\* the loop's `except Exception` logs it and sleeps RECONNECT_DELAY
ReconnectConnectionRejected(i) ==
    /\ reconnecting[i] > 0
    /\ rejected' = rejected \cup {i}
    /\ UNCHANGED <<config_vars, ended, status_vars, book_vars, pair, client_vars,
                   clock, pool_vars, dispatch_vars, overlap_vars>>

\* an attempt of _reconnect_ that the server rejects for authentication: the
\* exception leaves pool.run() and _connect_, the loop's `except Exception`
\* logs it and sleeps reconnection_interval
ReconnectRejected ==
    /\ \/ phase = "listening" /\ ws_handle \notin open_sockets
       \/ phase = "reconnect_sleep"
    /\ phase' = "reconnect_sleep"
    /\ rejected' = rejected \cup {ClientLoop}
    /\ UNCHANGED <<connections, latencies, connection, ws_handle, open_sockets,
                   next_socket, pingers, reconnecting, replayed_on, config_vars,
                   ended, status_vars, book_vars, pair, client_vars, clock,
                   dispatch_vars, overlap_vars>>

\* The pool and the client whose connection attempts may fail for a transient
\* reason or be rejected for authentication.
AuthNext ==
    \/ \E ok \in BOOLEAN : StartConnect(ok)
    \/ \E m \in ConnectionIds : StartElected(m)
    \/ \E h \in 1..MaxSockets : SocketClosed(h)
    \/ \E i \in ConnectionIds : PingException(i)
    \/ \E i \in ConnectionIds, ok \in BOOLEAN : ReconnectConnection(i, ok)
    \/ \E i \in ConnectionIds : ReconnectConnectionRejected(i)
    \/ \E ok \in BOOLEAN : ListenConnectionClosed(ok)
    \/ \E ok \in BOOLEAN : ReconnectRetry(ok)
    \/ \E m \in ConnectionIds : ReconnectElected(m)
    \/ ReconnectRejected

AuthSpec == Init /\ [][AuthNext]_vars

(* ------------- listen tasks and _reconnect_ calls, one by one ---------- *)

\* most _reconnect_ calls under way at a time
MaxLoops == 2

\* _connect_ that succeeds, in one step: pool.run() replaces the pool's
\* sockets, starts another monitor and elects connection m (no ping was timed,
\* so every mean is infinite and min takes the first id of the shuffled
\* dict), then self.websocket becomes the elected socket and a listen task is
\* created on it.  With closed_early the server closes that socket before the
\* caller of _connect_ runs again
connect_(m, closed_early) ==
    LET created == _create_connections_(next_socket)
    IN  /\ next_socket + Cardinality(ConnectionIds) <= MaxSockets
        /\ connections' = created
        /\ latencies' = [i \in ConnectionIds |-> <<>>]
        /\ next_socket' = next_socket + Cardinality(ConnectionIds)
        /\ pingers' = [i \in ConnectionIds |-> pingers[i] + 1]
        /\ connection' = created[m]
        /\ ws_handle' = created[m]
        /\ listeners' = listeners \cup {created[m]}
        /\ open_sockets' = (open_sockets \cup Sockets(created))
                              \ (IF closed_early THEN {created[m]} ELSE {})
        /\ UNCHANGED reconnecting

\* start(): _connect_
ClientStart(m) ==
    /\ phase = "new"
    /\ connect_(m, FALSE)
    /\ phase' = "listening"
    /\ websocket' = "open"
    /\ sent' = <<>>
    /\ op' = Op("start", NoId, "none", NoId, FALSE, "ok")
    /\ UNCHANGED <<loops, replayed_on, subscriptions, pending_unsubscriptions,
                   _id_counter, allocated, book_vars, pair, clock, dispatch_vars,
                   config_vars, ended, status_vars, rejected>>

\* a listen task whose socket was closed by the server gets ConnectionClosed
\* and calls _reconnect_, which closes self.websocket, whichever socket that
\* is by now, and enters its loop; the listen task of a socket closed from this
\* side leaves its `async for` without an exception
ListenSeesClosed(h) ==
    /\ h \in listeners
    /\ h \notin open_sockets
    /\ loops < MaxLoops
    /\ listeners' = listeners \ {h, ws_handle}
    /\ loops' = loops + 1
    /\ open_sockets' = open_sockets \ {ws_handle}
    /\ phase' = "reconnect_sleep"
    /\ UNCHANGED <<connections, latencies, connection, ws_handle, next_socket,
                   pingers, reconnecting, replayed_on, client_vars, book_vars, pair,
                   clock, dispatch_vars, config_vars, ended, status_vars, rejected>>

\* one attempt of a _reconnect_ loop in which _connect_ succeeds (one in which
\* it fails changes nothing).  resubscribe_all then sends on the elected
\* socket: if that was closed early and there is a subscription to send, the
\* send raises, the loop sleeps and stays under way; else the loop ends
ReconnectAttempt(m, closed_early) ==
    LET replay == resubscribe_all(subscriptions)
        raised == closed_early /\ replay # <<>>
    IN  /\ loops > 0
        /\ closed_early => replay # <<>>
        /\ connect_(m, closed_early)
        /\ loops' = IF raised THEN loops ELSE loops - 1
        /\ phase' = IF raised \/ loops > 1 THEN "reconnect_sleep" ELSE "listening"
        /\ sent' = IF raised THEN <<>> ELSE replay
        /\ replayed_on' = IF raised \/ replay = <<>> THEN replayed_on
                           ELSE _create_connections_(next_socket)[m]
        /\ op' = Op("_reconnect_", NoId, "none", NoId, ~raised,
                    IF raised THEN "ConnectionClosed" ELSE "ok")
        /\ UNCHANGED <<websocket, subscriptions, pending_unsubscriptions,
                       _id_counter, allocated, book_vars, pair, clock,
                       dispatch_vars, config_vars, ended, status_vars, rejected>>

\* The client, its listen tasks and its _reconnect_ calls, with the server
\* closing sockets.
OverlapNext ==
    \/ \E m \in ConnectionIds : ClientStart(m)
    \/ \E c \in ChannelLists, a \in BOOLEAN : AddSubscriptionOpen(c, a)
    \/ \E h \in 1..MaxSockets : SocketClosed(h)
    \/ \E h \in 1..MaxSockets : ListenSeesClosed(h)
    \/ \E m \in ConnectionIds, closed_early \in BOOLEAN :
          ReconnectAttempt(m, closed_early)

OverlapSpec == Init /\ [][OverlapNext]_vars

\* KalshiStatus.run(): sets _running and enters _poll_status_
StatusRun ==
    /\ poll_task = "new"
    /\ _running' = TRUE
    /\ poll_task' = "polling"
    /\ UNCHANGED <<config_vars, rejected, overlap_vars, ended, book_vars, pair, client_vars,
                   clock, pool_vars, dispatch_vars>>

\* _poll_status_ at its loop test: while _running is set the status is
\* fetched and the task sleeps polling_interval, else the loop and run() end
PollStatus ==
    /\ poll_task = "polling"
    /\ poll_task' = IF _running THEN "polling" ELSE "done"
    /\ UNCHANGED <<_running, config_vars, rejected, overlap_vars, ended, book_vars, pair, client_vars,
                   clock, pool_vars, dispatch_vars>>

\* KalshiStatus.shutdown()
StatusShutdown ==
    /\ _running' = FALSE
    /\ UNCHANGED <<poll_task, config_vars, rejected, overlap_vars, ended, book_vars, pair, client_vars,
                   clock, pool_vars, dispatch_vars>>

\* The pool and its ping tasks, the client's start and reconnect, the status
\* poller, and a caller that shuts both down.
ShutdownNext ==
    \/ \E ok \in BOOLEAN : StartConnect(ok)
    \/ \E m \in ConnectionIds : StartElected(m)
    \/ \E i \in ConnectionIds, latency \in RTTs : PingConnection(i, latency)
    \/ \E i \in ConnectionIds : PingException(i)
    \/ \E i \in ConnectionIds, ok \in BOOLEAN : ReconnectConnection(i, ok)
    \/ \E h \in 1..MaxSockets : SocketClosed(h)
    \/ \E ok \in BOOLEAN : ListenConnectionClosed(ok)
    \/ \E ok \in BOOLEAN : ReconnectRetry(ok)
    \/ \E m \in ConnectionIds : ReconnectElected(m)
    \/ End
    \/ StatusRun
    \/ PollStatus
    \/ StatusShutdown

\* every loop is a task of the event loop: an iteration that can be taken is
\* taken
ShutdownSpec ==
    /\ Init
    /\ [][ShutdownNext]_vars
    /\ WF_vars(PollStatus)
    /\ WF_vars(\E i \in ConnectionIds, latency \in RTTs : PingConnection(i, latency))
    /\ WF_vars(\E i \in ConnectionIds : PingException(i))

\* The client with subscriptions, connected through the pool, and a caller
\* that ends it.
EndNext ==
    \/ \E ok \in BOOLEAN : StartConnect(ok)
    \/ \E m \in ConnectionIds : StartElected(m)
    \/ \E c \in ChannelLists, a \in BOOLEAN : AddSubscriptionOpen(c, a)
    \/ \E h \in 1..MaxSockets : SocketClosed(h)
    \/ \E ok \in BOOLEAN : ListenConnectionClosed(ok)
    \/ \E ok \in BOOLEAN : ReconnectRetry(ok)
    \/ \E m \in ConnectionIds : ReconnectElected(m)
    \/ End

EndSpec == Init /\ [][EndNext]_vars

(* ------------------------- frame dispatch ------------------------------ *)
(* KalshiWsClient.listen with handle_message, and main.py's websocket_listener *)
(* with update_handler.  A frame is its arrival number; a frame of the        *)
(* client is `subscribed`, which handle_message logs, or `unsubscribed` for   *)
(* an active subscription, on which it awaits the send of a subscribe command. *)

\* largest number of frames that arrive on a socket
MaxFrames == 3

\* the types of the frames that arrive on the client's socket
FrameTypes == {"subscribed", "unsubscribed"}

\* listen with asyncio.create_task(handle_message(data)) in place of the await
listen_can_receive_spawned(handling) == TRUE

\* listen's loop body is `await self.handle_message(data)`: the async for takes
\* the next message once handle_message has returned
listen_can_receive(handling) == handling = {}

\* a frame arrives on the client's socket
FrameArrives(type) ==
    /\ arrivals < MaxFrames
    /\ arrivals' = arrivals + 1
    /\ inbox' = Append(inbox, [n |-> arrivals + 1, type |-> type])
    /\ UNCHANGED <<in_progress, log, queue, m_arrivals, processed, book_vars, pair,
                   client_vars, clock, pool_vars, sup_vars>>

\* listen: the async for yields the next message and handle_message begins
ListenReceives ==
    /\ inbox # <<>>
    /\ listen_can_receive(in_progress)
    /\ inbox' = Tail(inbox)
    /\ in_progress' =
          in_progress \cup {[n |-> Head(inbox).n, type |-> Head(inbox).type,
                             stage |-> "begun"]}
    /\ log' = Append(log, [event |-> "begin", n |-> Head(inbox).n])
    /\ UNCHANGED <<arrivals, queue, m_arrivals, processed, book_vars, pair,
                   client_vars, clock, pool_vars, sup_vars>>

\* handle_message of an `unsubscribed` frame: _handle_forced_unsubscription_
\* awaits add_subscription, which awaits the send of its command
HandleMessageSends(f) ==
    /\ f \in in_progress
    /\ f.type = "unsubscribed"
    /\ f.stage = "begun"
    /\ in_progress' = (in_progress \ {f}) \cup {[f EXCEPT !.stage = "sent"]}
    /\ log' = Append(log, [event |-> "send", n |-> f.n])
    /\ UNCHANGED <<inbox, arrivals, queue, m_arrivals, processed, book_vars, pair,
                   client_vars, clock, pool_vars, sup_vars>>

\* handle_message returns to listen
HandleMessageReturns(f) ==
    /\ f \in in_progress
    /\ f.type = "subscribed" \/ f.stage = "sent"
    /\ in_progress' = in_progress \ {f}
    /\ log' = Append(log, [event |-> "end", n |-> f.n])
    /\ UNCHANGED <<inbox, arrivals, queue, m_arrivals, processed, book_vars, pair,
                   client_vars, clock, pool_vars, sup_vars>>

\* websocket_listener: data = await websocket.recv(); await queue.put(...)
WebsocketListener ==
    /\ m_arrivals < MaxFrames
    /\ m_arrivals' = m_arrivals + 1
    /\ queue' = Append(queue, m_arrivals + 1)
    /\ UNCHANGED <<inbox, arrivals, in_progress, log, processed, book_vars, pair,
                   client_vars, clock, pool_vars, sup_vars>>

\* update_handler: message = await queue.get(), then orderbook.process(message)
\* and queue.task_done() with no await in between
UpdateHandlerGets ==
    /\ queue # <<>>
    /\ processed' = Append(processed, Head(queue))
    /\ queue' = Tail(queue)
    /\ UNCHANGED <<inbox, arrivals, in_progress, log, m_arrivals, book_vars, pair,
                   client_vars, clock, pool_vars, sup_vars>>

\* the frames handle_message may be handling
Handling ==
    [n : 1..MaxFrames, type : FrameTypes, stage : {"begun", "sent"}]

DispatchNext ==
    \/ \E type \in FrameTypes : FrameArrives(type)
    \/ ListenReceives
    \/ \E f \in Handling : HandleMessageSends(f)
    \/ \E f \in Handling : HandleMessageReturns(f)
    \/ WebsocketListener
    \/ UpdateHandlerGets

DispatchSpec == Init /\ [][DispatchNext]_vars

(* ------------------------------ claims -------------------------------- *)

LevelSet(book) == { book[i] : i \in 1..Len(book) }

\* quantity > 0 at every level, no price twice on a side
WellFormed(ob) ==
    /\ \A i \in 1..Len(ob.bids) : ob.bids[i].quantity > 0
    /\ \A i \in 1..Len(ob.asks) : ob.asks[i].quantity > 0
    /\ \A i, j \in 1..Len(ob.bids) : i # j => ob.bids[i].price # ob.bids[j].price
    /\ \A i, j \in 1..Len(ob.asks) : i # j => ob.asks[i].price # ob.asks[j].price

\* the step is an update_handler iteration on a frame of this type
HandlerStep(type) == last'.path = "update_handler" /\ last'.type = type

\* the list of the book a delta frame's side names: bids for "yes", asks for "no"
SideOf(msg) == IF msg.side = "yes" THEN "bids" ELSE "asks"

\* C1: after any sequence of snapshots and deltas, from the book the message
\* handler is created with, every stored Level has quantity > 0 and no two Levels
\* of a side share a price.
C1_LevelsPositiveUnique == WellFormed(orderbook) /\ WellFormed(h_orderbook)

\* C2: whenever bids and asks are both non-empty, best_bid.price <= best_ask.price
\* (stated for the books update_handler holds while it runs, every frame so far
\* having been processed to the end).
C2_NeverCrossed ==
    (handler_task = "running" /\ orderbook.bids # <<>> /\ orderbook.asks # <<>>)
        => orderbook.bids[1].price <= orderbook.asks[1].price

\* C3: last_seq, the seq of the latest applied update, never decreases: no update
\* that changes the book carries a seq below that of the update applied before it.
C3_LastSeqNonDecreasing ==
    [][(last'.outcome = "ok" /\ orderbook' # orderbook) => last_seq' >= last_seq]_vars

\* C4: a delta whose seq is <= last_seq is dropped: bids and asks are unchanged.
C4_StaleDeltaDropped ==
    [][(HandlerStep("orderbook_delta") /\ last'.has_seq /\ last_seq' <= last_seq)
         => orderbook' = orderbook]_vars

\* C5: a delta whose seq is > last_seq + 1, arriving at a book that has applied an
\* update, leaves the levels of the book unchanged.
C5_GapLeavesLevels ==
    [][(HandlerStep("orderbook_delta") /\ last'.has_seq /\ last_seq >= 1
            /\ last_seq' > last_seq + 1)
         => orderbook' = orderbook]_vars

\* C6: after a snapshot is applied, bids are exactly the YES levels and asks
\* exactly the NO levels at price 100 - p, bids by descending and asks by ascending
\* price, whatever the book held before and also when a side is empty.
C6_SnapshotReplaces ==
    (last.path = "update_handler" /\ last.type = "orderbook_snapshot" /\ last.outcome = "ok")
        => /\ LevelSet(orderbook.bids) =
                { Level(last.msg.yes[i][1], last.msg.yes[i][2]) : i \in 1..Len(last.msg.yes) }
           /\ LevelSet(orderbook.asks) =
                { Level(100 - last.msg.no[i][1], last.msg.no[i][2]) : i \in 1..Len(last.msg.no) }
           /\ Len(orderbook.bids) = Len(last.msg.yes)
           /\ Len(orderbook.asks) = Len(last.msg.no)
           /\ \A i \in 1..(Len(orderbook.bids) - 1) :
                orderbook.bids[i].price > orderbook.bids[i + 1].price
           /\ \A i \in 1..(Len(orderbook.asks) - 1) :
                orderbook.asks[i].price < orderbook.asks[i + 1].price

\* C7: a delta handed to Orderbook.update for a price that has a level on the
\* list sets that level to quantity + delta when the sum is > 0 and removes it
\* when the sum is <= 0; every other level of the list keeps price and quantity.
C7_DeltaOnExistingLevel ==
    [][HandlerStep("orderbook_delta") =>
        LET pre == orderbook[SideOf(last'.msg)]
            post == orderbook'[SideOf(last'.msg)]
            p == last'.msg.price
            d == last'.msg.delta
        IN  \A l \in LevelSet(pre) :
              l.price = p =>
                /\ LevelSet(post) =
                     (LevelSet(pre) \ {l})
                        \cup (IF l.quantity + d > 0 THEN {Level(p, l.quantity + d)} ELSE {})
                /\ Len(post) = Cardinality(LevelSet(post))]_vars

\* C7 witness: a yes delta of -1 met the bid level at 30 and popped it (the sum
\* was exactly 0, quantities being positive) and the bid level at 60 is as it was
C7_Witness ==
    /\ last.path = "update_handler"
    /\ last.type = "orderbook_delta"
    /\ last.outcome = "ok"
    /\ last.branch = "pop"
    /\ last.msg = [price |-> 30, delta |-> 0 - 1, side |-> "yes"]
    /\ orderbook.bids = <<Level(60, 2)>>

\* C8: a delta (carrying a seq) for a price with no level on the addressed list
\* inserts (price, delta) when delta > 0 and raises an error when delta <= 0.
C8_DeltaOnMissingLevel ==
    [][HandlerStep("orderbook_delta") =>
        LET pre == orderbook[SideOf(last'.msg)]
            post == orderbook'[SideOf(last'.msg)]
            p == last'.msg.price
            d == last'.msg.delta
        IN  (last'.has_seq /\ \A l \in LevelSet(pre) : l.price # p) =>
              IF d > 0
              THEN LevelSet(post) = LevelSet(pre) \cup {Level(p, d)}
              ELSE last'.outcome # "ok"]_vars

\* C9: a "yes" delta at price p changes only the bid level at p, a "no" delta at
\* price p only the ask level at 100 - p; the opposite side is unchanged.
C9_DeltaAddressesOneLevel ==
    [][(HandlerStep("orderbook_delta") /\ last'.has_seq) =>
        LET p == last'.msg.price
        IN  IF last'.msg.side = "yes"
            THEN /\ orderbook'.asks = orderbook.asks
                 /\ { l \in LevelSet(orderbook'.bids) : l.price # p }
                      = { l \in LevelSet(orderbook.bids) : l.price # p }
            ELSE /\ orderbook'.bids = orderbook.bids
                 /\ { l \in LevelSet(orderbook'.asks) : l.price # 100 - p }
                      = { l \in LevelSet(orderbook.asks) : l.price # 100 - p }]_vars

\* C10: a snapshot or delta frame that carries no seq is rejected with an error
\* and leaves bids, asks and last_seq as they were.
C10_NoSeqRejected ==
    [][(last'.type \in {"orderbook_snapshot", "orderbook_delta"} /\ ~last'.has_seq)
         => /\ last'.outcome # "ok"
            /\ orderbook' = orderbook
            /\ h_orderbook' = h_orderbook
            /\ last_seq' = last_seq]_vars

\* C11: one book per market: a snapshot or delta whose market_ticker is A, arriving
\* after a frame of another market B, leaves the book held for B unchanged.
C11_OtherMarketUnchanged ==
    [][\A B \in MarketTickers :
         (/\ last.path = "update_handler"
          /\ last.msg.market_ticker = B
          /\ last'.path = "update_handler"
          /\ last'.type \in {"orderbook_snapshot", "orderbook_delta"}
          /\ last'.msg.market_ticker # B)
            => BookOf(orderbook', B) = BookOf(orderbook, B)]_vars

\* C12: after every snapshot and every delta, bids are in strictly descending and
\* asks in strictly ascending price order, so bba is the bid of the highest price
\* and the ask of the lowest price.
C12_SortedBestFirst ==
    /\ \A i \in 1..(Len(orderbook.bids) - 1) :
         orderbook.bids[i].price > orderbook.bids[i + 1].price
    /\ \A i \in 1..(Len(orderbook.asks) - 1) :
         orderbook.asks[i].price < orderbook.asks[i + 1].price
    /\ orderbook.bids # <<>> =>
         \A l \in LevelSet(orderbook.bids) : bba(orderbook)[1].price >= l.price
    /\ orderbook.asks # <<>> =>
         \A l \in LevelSet(orderbook.asks) : bba(orderbook)[2].price <= l.price

\* C12 witness: a yes delta appended a bid at 60 behind the bid at 30 and, on
\* the other side, asks hold two levels; the sort left 60 first and 30 first
C12_Witness ==
    /\ last.path = "update_handler"
    /\ last.type = "orderbook_delta"
    /\ last.outcome = "ok"
    /\ last.branch = "append"
    /\ last.msg = [price |-> 60, delta |-> 1, side |-> "yes"]
    /\ orderbook.bids = <<Level(60, 1), Level(30, 2)>>
    /\ Len(orderbook.asks) = 2
    /\ bba(orderbook) = <<Level(60, 1), Level(30, 2)>>

\* C13: for a level at price p with quantity q on the YES side, delta(+q') and
\* then delta(-q') at p, q' > 0, leave bids and asks equal to those before the
\* two deltas.
C13_PlusMinusRestores ==
    pair.phase = "minus" =>
        /\ orderbook.bids = pair.before.bids
        /\ orderbook.asks = pair.before.asks

\* C13 witness: the pair +2, -2 was applied to the bid level (30, 1) standing
\* behind the bid at 60, the second delta taking the level from 3 back to 1
C13_Witness ==
    /\ pair.phase = "minus"
    /\ pair.price = 30
    /\ pair.q = 2
    /\ last.branch = "set"
    /\ last.msg = [price |-> 30, delta |-> 0 - 2, side |-> "yes"]
    /\ orderbook.bids = <<Level(60, 2), Level(30, 1)>>
    /\ orderbook.asks # <<>>

\* C14: subscription ids are strictly increasing and never reused: every id
\* add_subscription returns, called by the user or by forced-unsubscribe recovery,
\* is greater than every id allocated before it and names no subscription yet,
\* across subscribe, update, unsubscribe, recovery and reconnect steps.
C14_IdsStrictlyIncreasing ==
    [][/\ (op'.name \in {"add_subscription", "unsubscribed"} /\ op'.ret # NoId) =>
            /\ \A i \in allocated : op'.ret > i
            /\ op'.ret \notin DOMAIN subscriptions
            /\ op'.ret \notin pending_unsubscriptions
       /\ \A i \in allocated' \ allocated : \A j \in allocated : i > j]_vars

\* C14 witness: with id 1 unsubscribed and still pending, recovery of the forced
\* unsubscribe of id 2 got id 3
C14_Witness ==
    /\ op.name = "unsubscribed"
    /\ op.branch = "resubscribe"
    /\ op.arg = 2
    /\ op.ret = 3
    /\ 1 \in pending_unsubscriptions
    /\ DOMAIN subscriptions = {2, 3}

\* C15: for every id in pending_unsubscriptions, an `unsubscribed` frame for that
\* id removes it from pending_unsubscriptions and triggers no re-subscribe: no
\* command is sent and the subscriptions are as before.
C15_PendingUnsubscribeHandled ==
    [][\A i \in pending_unsubscriptions :
         (op'.name = "unsubscribed" /\ op'.arg = i) =>
            /\ i \notin pending_unsubscriptions'
            /\ pending_unsubscriptions' = pending_unsubscriptions \ {i}
            /\ sent' = <<>>
            /\ subscriptions' = subscriptions
            /\ _id_counter' = _id_counter]_vars

\* C15 witness: ids 1 and 2 were unsubscribed, the frame for 1 arrived and took 1
\* out of the pending set, 2 is still there
C15_Witness ==
    /\ op.name = "unsubscribed"
    /\ op.branch = "pending"
    /\ op.arg = 1
    /\ pending_unsubscriptions = {2}
    /\ sent = <<>>

\* C16: an `unsubscribed` frame for an active subscription id that is not in
\* pending_unsubscriptions makes the client send one subscribe command with that
\* subscription's channels and a newly allocated id greater than the old id.
C16_ForcedUnsubscribeResubscribes ==
    [][\A i \in DOMAIN subscriptions :
         (/\ subscriptions[i].active
          /\ i \notin pending_unsubscriptions
          /\ op'.name = "unsubscribed"
          /\ op'.arg = i) =>
            /\ Len(sent') = 1
            /\ sent'[1].cmd = "subscribe"
            /\ sent'[1].channels = subscriptions[i].channels
            /\ sent'[1].id > i
            /\ sent'[1].id \notin allocated
            /\ sent'[1].id \in allocated'
            /\ sent'[1].id \in DOMAIN subscriptions' \ DOMAIN subscriptions]_vars

\* C16 witness: subscription 1 on ticker and trade was forcibly unsubscribed and
\* the subscribe command for the same two channels went out under id 2
C16_Witness ==
    /\ op.name = "unsubscribed"
    /\ op.branch = "resubscribe"
    /\ op.arg = 1
    /\ pending_unsubscriptions = {}
    /\ sent = <<Command(2, "subscribe", <<"ticker", "trade">>, <<>>, state_tickers, Absent)>>
    /\ subscriptions[2].channels = <<"ticker", "trade">>

\* C17: after forced-unsubscribe recovery of an id the old id is abandoned: it is
\* no key of the subscription map, hence not replayed by resubscribe_all.
C17_OldIdAbandoned ==
    (op.name = "unsubscribed" /\ op.branch = "resubscribe") =>
        /\ op.arg \notin DOMAIN subscriptions
        /\ \A k \in 1..Len(resubscribe_all(subscriptions)) :
             resubscribe_all(subscriptions)[k].id # op.arg

\* C18: a subscription add_subscription created is PendingAck (active = false)
\* once the subscribe command is sent, no `subscribed` frame having been received
\* for it yet.
C18_PendingAckAfterSubscribe ==
    (op.name = "add_subscription" /\ op.outcome = "ok") =>
        ~subscriptions[op.ret].active

\* C19: when confirmation_timeout elapses for a subscription whose `subscribed`
\* frame has arrived (here: the frame handled just before), no reconnect is
\* triggered.
C19_NoReconnectAfterAck ==
    [][(/\ op.name = "subscribed"
        /\ op'.name = "_await_confirmation"
        /\ op'.arg = op.arg) => ~op'.reconnected]_vars

\* C20: update_subscription(id, new) on a known id with ticker set cur sends an
\* add_markets command with exactly new - cur iff that set is non-empty and a
\* delete_markets command with exactly cur - new iff that set is non-empty, the
\* add_markets command first, and leaves the subscription's tickers equal to new;
\* on an unknown id it sends nothing and changes no subscription.
C20_UpdateSendsDifferences ==
    [][op'.name = "update_subscription" =>
        LET id == op'.arg
            new == op'.updated_tickers
        IN  IF id \in DOMAIN subscriptions
            THEN LET cur == subscriptions[id].tickers
                     adds == { k \in 1..Len(sent') : sent'[k].action = "add_markets" }
                     dels == { k \in 1..Len(sent') : sent'[k].action = "delete_markets" }
                 IN  /\ \A k \in 1..Len(sent') :
                          /\ sent'[k].cmd = "update_subscription"
                          /\ sent'[k].sids = <<id>>
                          /\ k \in adds \cup dels
                     /\ Cardinality(adds) = (IF new \ cur # {} THEN 1 ELSE 0)
                     /\ Cardinality(dels) = (IF cur \ new # {} THEN 1 ELSE 0)
                     /\ \A k \in adds : sent'[k].market_tickers = new \ cur
                     /\ \A k \in dels : sent'[k].market_tickers = cur \ new
                     /\ \A a \in adds, d \in dels : a < d
                     /\ DOMAIN subscriptions' = DOMAIN subscriptions
                     /\ subscriptions'[id].tickers = new
                     /\ \A j \in DOMAIN subscriptions \ {id} :
                          subscriptions'[j] = subscriptions[j]
            ELSE /\ sent' = <<>>
                 /\ subscriptions' = subscriptions]_vars

\* C20 witness: subscription 1 on {KXA} was updated to {KXB}: add_markets {KXB}
\* went out first, delete_markets {KXA} second, and its tickers are {KXB}
C20_Witness ==
    /\ op.name = "update_subscription"
    /\ op.arg = 1
    /\ op.updated_tickers = {"KXB"}
    /\ op.ret = <<"add_markets", "delete_markets">>
    /\ sent = <<Command(2, "update_subscription", <<>>, <<1>>, {"KXB"}, "add_markets"),
                Command(3, "update_subscription", <<>>, <<1>>, {"KXA"}, "delete_markets")>>
    /\ subscriptions[1].tickers = {"KXB"}

\* C21: when the server answers a command of update_subscription with an
\* error frame, the inverse command is sent and the subscription's tickers are
\* again what they were before the update.
C21_ErrorRollsBackUpdate ==
    [][(/\ op.name = "update_subscription"
        /\ op.branch = "known"
        /\ op'.name = "error"
        /\ \E k \in 1..Len(sent) : sent[k].id = op'.arg)
       => /\ sent' # <<>>
          /\ op.arg \in DOMAIN subscriptions'
          /\ subscriptions'[op.arg].tickers = op.current_tickers]_vars

\* C23: every subscribe command sent for an all-markets subscription, the
\* first one or a replay after a reconnect, has no market_tickers field.
C23_AllMarketsOmitsTickers ==
    \A k \in 1..Len(sent) :
        (/\ sent[k].cmd = "subscribe"
         /\ sent[k].id \in DOMAIN subscriptions
         /\ subscriptions[sent[k].id].tickers = {"all_markets"})
        => sent[k].market_tickers = NoTickers

\* C24: unsubscribe(ids) sends one unsubscribe command with no id field that
\* lists exactly the requested ids that are keys of the subscription map, adds
\* those ids to pending_unsubscriptions, removes them from the map and leaves
\* the id counter alone; when no requested id is a key it sends nothing and
\* changes neither the map nor pending_unsubscriptions.
C24_UnsubscribeKnownIds ==
    [][op'.name = "unsubscribe" =>
        LET valid == op'.arg \cap DOMAIN subscriptions
        IN  /\ _id_counter' = _id_counter
            /\ IF valid # {}
               THEN /\ Len(sent') = 1
                    /\ sent'[1].cmd = "unsubscribe"
                    /\ sent'[1].id = NoId
                    /\ Range(sent'[1].sids) = valid
                    /\ pending_unsubscriptions' = pending_unsubscriptions \cup valid
                    /\ DOMAIN subscriptions' = DOMAIN subscriptions \ valid
                    /\ \A i \in DOMAIN subscriptions' :
                           subscriptions'[i] = subscriptions[i]
               ELSE /\ sent' = <<>>
                    /\ subscriptions' = subscriptions
                    /\ pending_unsubscriptions' = pending_unsubscriptions]_vars

\* C22: resubscribe_all sends one subscribe command for every active
\* subscription and none for any other, each with that subscription's id,
\* channels and tickers; the keys of the subscription map and every field of a
\* subscription but updated_ts are as before, and updated_ts of a replayed
\* subscription is a reading of the clock taken during the replay.
C22_ReplaySendsActiveSubscriptions ==
    [][op'.name = "_reconnect_" =>
        LET active == { i \in DOMAIN subscriptions : subscriptions[i].active }
        IN  /\ Len(sent') = Cardinality(active)
            /\ \A i \in active : \E k \in 1..Len(sent') :
                   sent'[k] = Command(i, "subscribe", subscriptions[i].channels, <<>>,
                                      subscriptions[i].tickers, Absent)
            /\ DOMAIN subscriptions' = DOMAIN subscriptions
            /\ \A i \in DOMAIN subscriptions :
                   /\ subscriptions'[i] =
                         [subscriptions[i] EXCEPT
                            !.updated_ts = subscriptions'[i].updated_ts]
                   /\ i \in active =>
                         /\ clock <= subscriptions'[i].updated_ts
                         /\ subscriptions'[i].updated_ts <= clock']_vars

\* C22 witness: two subscriptions on different channels, both created when the
\* clock read 0, were replayed when it read 1
C22_Witness ==
    /\ op.name = "_reconnect_"
    /\ Len(sent) = 2
    /\ sent[1].id = 1 /\ sent[2].id = 2
    /\ sent[1].channels # sent[2].channels
    /\ sent[1].market_tickers # sent[2].market_tickers
    /\ \A i \in {1, 2} :
          subscriptions[i].created_ts = 0 /\ subscriptions[i].updated_ts = 1

\* the phases of _reconnect_'s loop: inside pool.run(), or asleep after an
\* attempt that failed
ReconnectPhases == {"reconnect_warmup", "reconnect_sleep"}

\* C25: the listener leaves its loop only on a closed socket and then enters
\* the reconnect loop; the loop is left only by an attempt that succeeds, and
\* then the client's socket is the pool's newly elected connection, a socket of
\* the pool other than the one that closed, and every active subscription has
\* been replayed on it.
C25_ReconnectUntilReplayed ==
    [][/\ (phase = "listening" /\ phase' # "listening") =>
            (ws_handle \notin open_sockets /\ phase' \in ReconnectPhases)
       /\ (phase \in ReconnectPhases /\ phase' # "listening") =>
            phase' \in ReconnectPhases
       /\ (phase \in ReconnectPhases /\ phase' = "listening") =>
            LET active == { i \in DOMAIN subscriptions : subscriptions[i].active }
            IN  /\ ws_handle' = connection'
                /\ ws_handle' \in Sockets(connections')
                /\ ws_handle' # ws_handle
                /\ subscriptions' = subscriptions
                /\ Len(sent') = Cardinality(active)
                /\ \A i \in active : \E k \in 1..Len(sent') :
                       sent'[k].id = i /\ sent'[k].cmd = "subscribe"
                /\ active # {} =>
                       (replayed_on' = ws_handle' /\ ws_handle' \in open_sockets')]_vars

\* C25 witness: the first socket closed, the pool was created again and the two
\* subscriptions were replayed on the open socket elected from the new pool
C25_Witness ==
    /\ phase = "listening"
    /\ op.name = "_reconnect_"
    /\ Len(sent) = 2
    /\ ws_handle \in {3, 4}
    /\ ws_handle \in open_sockets
    /\ replayed_on = ws_handle
    /\ connection = ws_handle

\* C26: while the client listens, once every connection of the pool has a
\* sample in its window, one that replaced the elected connection included,
\* the election has been run on them: active_connection and the client's
\* socket are sockets the pool holds.
C26_ElectedSocketInPool ==
    (/\ phase = "listening"
     /\ \A i \in DOMAIN latencies : latencies[i] # <<>>)
    => (connection \in Sockets(connections) /\ ws_handle \in Sockets(connections))

\* C27: no step of the pool or of the client takes an open socket out of the
\* pool: the loss of one connection, seen by its ping task or by the client's
\* listener, leaves every other connection id mapped to the socket it had.
C27_OpenSocketsStayInPool ==
    [][\A j \in DOMAIN connections :
          connections[j] \in open_sockets =>
             (j \in DOMAIN connections' /\ connections'[j] = connections[j])]_vars

\* connection id j has the socket, the window and the ping tasks it had
SameConnection(j) ==
    /\ connections'[j] = connections[j]
    /\ latencies'[j] = latencies[j]
    /\ pingers'[j] = pingers[j]
    /\ reconnecting'[j] = reconnecting[j]

\* C28: a ping task enters the reconnect of its connection id i only on a
\* closed socket, and leaves it only by an attempt that succeeds; id i then
\* maps to a socket never seen before, which is open, and its window is empty.
\* Entering and leaving change the socket, the window and the ping tasks of no
\* other id.
C28_ReconnectOfOneConnection ==
    [][\A i \in ConnectionIds :
        /\ reconnecting'[i] > reconnecting[i] =>
              /\ connections[i] \notin open_sockets
              /\ connections' = connections
              /\ latencies' = latencies
              /\ pingers'[i] = pingers[i] - 1
              /\ \A j \in ConnectionIds \ {i} : SameConnection(j)
        /\ reconnecting'[i] < reconnecting[i] =>
              /\ connections'[i] > next_socket
              /\ connections'[i] \in open_sockets'
              /\ latencies'[i] = <<>>
              /\ pingers'[i] = pingers[i] + 1
              /\ \A j \in ConnectionIds \ {i} : SameConnection(j)]_vars

\* C28 witness: id 1 was reconnected to socket 3 and its window is empty; id 2
\* has its first socket and the two samples of its window
C28_Witness ==
    /\ DOMAIN connections = ConnectionIds
    /\ connections[1] = 3
    /\ latencies[1] = <<>>
    /\ connections[2] = 2
    /\ Len(latencies[2]) = 2
    /\ {2, 3} \subseteq open_sockets
    /\ pingers = [i \in ConnectionIds |-> 1]
    /\ reconnecting = [i \in ConnectionIds |-> 0]

\* C29: the election at the end of a warm-up sets active_connection to the
\* socket of a connection id m such that every id with samples has a mean RTT
\* at least that of m, and m has samples whenever any id has.
C29_ElectionTakesLeastMean ==
    [][(phase \in {"start_warmup", "reconnect_warmup"} /\ phase' # phase) =>
        \E m \in DOMAIN connections :
            /\ connection' = connections[m]
            /\ \A j \in DOMAIN latencies :
                  latencies[j] # <<>> =>
                     /\ latencies[m] # <<>>
                     /\ Sum(latencies[m]) * Len(latencies[j])
                           <= Sum(latencies[j]) * Len(latencies[m])]_vars

\* C29 witness: id 2, whose window <<1, 2>> has the mean 3/2, is the elected
\* connection, and the window of id 1 is <<2>>
C29_Witness ==
    /\ phase = "listening"
    /\ DOMAIN connections = ConnectionIds
    /\ latencies[1] = <<2>>
    /\ latencies[2] = <<1, 2>>
    /\ connection = connections[2]
    /\ ws_handle = connection

\* C30: the frames of a socket are handled in arrival order and one at a time:
\* handle_message begins on frame k + 1 right after it ended on frame k, the
\* command it sends for a frame lies between the begin and the end of that
\* frame, and update_handler processes the queued frames in arrival order.
C30_FramesHandledInOrder ==
    /\ \A p \in 1..Len(log) :
          IF log[p].event = "begin"
          THEN IF p = 1 THEN log[p].n = 1
               ELSE log[p - 1].event = "end" /\ log[p].n = log[p - 1].n + 1
          ELSE /\ p > 1
               /\ log[p - 1].n = log[p].n
               /\ log[p].event = "send" => log[p - 1].event = "begin"
               /\ log[p].event = "end" => log[p - 1].event \in {"begin", "send"}
    /\ processed = [k \in 1..Len(processed) |-> k]

\* C30 witness: frame 2 arrived while handle_message was on frame 1, whose
\* command has been sent, and waits; of the three frames in main.py's queue
\* the first has been processed
C30_Witness ==
    /\ in_progress = {[n |-> 1, type |-> "unsubscribed", stage |-> "sent"]}
    /\ Len(inbox) = 1
    /\ Head(inbox).n = 2
    /\ log = <<[event |-> "begin", n |-> 1], [event |-> "send", n |-> 1]>>
    /\ processed = <<1>>
    /\ queue = <<2, 3>>

\* the subscription state of the client
subscription_state == <<subscriptions, pending_unsubscriptions, _id_counter>>

C32_ResultIsTerminal ==
    [][ h_lifecycle.result \in {"yes", "no"} =>
          /\ h_lifecycle'.result = h_lifecycle.result
          /\ h_lifecycle.is_deactivated => h_lifecycle'.is_deactivated ]_vars

\* every active subscription that is not an all-markets one holds the ticker
\* set State.tickers holds
ConfiguredEverywhere ==
    \A id \in DOMAIN subscriptions :
        (subscriptions[id].active /\ subscriptions[id].tickers # {"all_markets"})
            => subscriptions[id].tickers = State_tickers

\* C33: after a refresh that read a changed ticker list, every active
\* subscription that is not an all-markets one eventually holds the configured
\* ticker set.
C33_RefreshReachesSubscriptions ==
    (op.name = "refresh" /\ op.branch = "changed") ~> ConfiguredEverywhere

\* C34: once end() has returned, the subscription map is empty and every
\* socket the pool holds is closed.
C34_EndClosesEverything ==
    ended => /\ subscriptions = <<>>
             /\ Sockets(connections) \cap open_sockets = {}

\* end() has returned and shutdown() of the poller was called after run()
ShutdownRequested == ended /\ ~_running /\ poll_task # "new"

\* no ping task is in its ping loop or in _reconnect_connection_, the client is
\* neither listening nor in _reconnect_, and the status poller has ended
AllLoopsEnded ==
    /\ \A i \in ConnectionIds : pingers[i] = 0 /\ reconnecting[i] = 0
    /\ phase \notin {"listening", "reconnect_warmup", "reconnect_sleep"}
    /\ poll_task = "done"

C36_NoAttemptAfterAuthRejected ==
    [][ /\ \A i \in ConnectionIds :
              i \in rejected => reconnecting'[i] >= reconnecting[i]
        /\ ClientLoop \in rejected =>
              ~(phase = "reconnect_sleep" /\ phase' = "reconnect_warmup") ]_vars

\* C37: after a book frame that carries no seq was handed to the message
\* handler, the listen task is still running, so the frames that follow on the
\* socket are received and handled.
C37_ProtocolErrorKeepsListening ==
    (/\ last.path = "handle_message"
     /\ last.type \in {"orderbook_snapshot", "orderbook_delta"}
     /\ ~last.has_seq)
        => listen_task = "running"

\* C38: at any time at most one _reconnect_ call is under way and at most
\* one listen task iterates an open socket.
C38_OneReconnectOneListener ==
    /\ loops <= 1
    /\ Cardinality(listeners \cap open_sockets) <= 1

\* C39: every connection id of the pool has exactly one ping task, in its
\* ping loop or inside _reconnect_connection_, at any time, also after the
\* client reconnected and ran the pool bootstrap again.
C39_OnePingerPerConnection ==
    \A i \in DOMAIN connections : pingers[i] + reconnecting[i] = 1

\* C40: the subscribe command that forced-unsubscribe recovery sends names the
\* markets of the subscription it replaces: that subscription's ticker set as
\* it stands when the `unsubscribed` frame arrives, and no market_tickers at
\* all when the subscription is an all-markets one.
C40_RecoveryCoversSameMarkets ==
    [][\A i \in DOMAIN subscriptions :
         (/\ subscriptions[i].active
          /\ i \notin pending_unsubscriptions
          /\ op'.name = "unsubscribed"
          /\ op'.arg = i) =>
            /\ Len(sent') = 1
            /\ sent'[1].cmd = "subscribe"
            /\ sent'[1].market_tickers =
                  IF subscriptions[i].tickers = {"all_markets"}
                  THEN NoTickers ELSE subscriptions[i].tickers]_vars

====
